---- MODULE Spec2Model ----
(***************************************************************************)
(* The basketball highlight pipeline:                                      *)
(*  - the identity reconciliation engine, EnhancedPlayerTracker            *)
(*    (src/utils/enhanced_player_tracker.py), specification Spec;          *)
(*  - the possession detector, StreamingBallAcquisitionDetector            *)
(*    (src/ball_aquisition/streaming_ball_aquisition_detector.py),         *)
(*    specifications SpecDetector and SpecCandidate;                       *)
(*  - the session orchestrator, VideoProcessingService                     *)
(*    (src/api/services/video_service.py), specification SpecSession.      *)
(*                                                                         *)
(* Units.  Pixel coordinates are integers.  Velocities are averages over   *)
(* 1..4 displacements, so every quantity derived from a velocity is kept   *)
(* in sub-pixels (1/Sub pixel, Sub = 12 is divisible by 1..4) and every    *)
(* confidence in units of 1/One (One = 18000), which makes each division   *)
(* of calculate_player_confidence exact on the inputs of the model.        *)
(***************************************************************************)
EXTENDS Integers, Sequences, FiniteSets, TLC

VARIABLES
    tracking_state,   \* self.tracking_state: None or a TrackingState record
    op,               \* name of the last public operation called
    after_deny,       \* history: the call before the last one was
                      \* deny_temporary_assignment on an initialized tracker
    arg_id,           \* player_id argument of the last call (None if none)
    arg_track,        \* player_track argument of the last call (<<>> if none)
    ret,              \* value returned by the last call
    since_lost        \* history: update_tracking has reported "no target,
                      \* user input needed", and since then no update_tracking
                      \* has returned a tracked id and neither
                      \* confirm_reassignment nor initialize_tracking was called

VARIABLES
    acquisitions_history,          \* self.acquisitions_history
    consecutive_possession_count,  \* self.consecutive_possession_count, a
                                   \* dict as the set of its <<key, value>>
    det_player_track,  \* player_track argument of the last process_frame
    det_ball_track,    \* ball_track argument of the last process_frame
    det_best,          \* best_player_id of the last process_frame
                       \* (NotComputed if it returned before computing it)
    det_ret,           \* value returned by the last process_frame
    best_run           \* history: the player who was the per-frame best
                       \* candidate on the last call and the number of
                       \* consecutive calls, the last one included, on which
                       \* that player was

VARIABLES
    pc,                    \* where the session is: "start", "read" (top of
                           \* the frame loop), waiting for an answer
                           \* ("wait_initial", "wait_confirm",
                           \* "wait_reassign"), "completed", "failed",
                           \* "disconnected"
    frame_num,             \* frame_num
    frame_count,           \* frame_count
    tracking_initialized,  \* tracking_initialized
    intervals,             \* intervals, the pending highlight intervals
    highlight_possessions, \* highlight_possessions
    cur_player_track,      \* player_track of the frame being processed
    possession_player_id,  \* possession_player_id of that frame
    cur_suggestions,       \* suggestions of the pending reassignment request
    last_response,         \* response, the answer consumed by the last step
    sent,                  \* the messages sent to the client by the last step
    calls,                 \* the engine operations called by the last step
    summary,               \* the summary of the completed message
    cleaned,               \* _cleanup_processing_resources has run
    raised,                \* what raised the exception that left
                           \* process_video_session: "none", "tracker",
                           \* "human_input", "download", "disconnect"
    resources,             \* temp_video_path, the temporary file and the S3
                           \* object of the session, and the cleanup steps
                           \* attempted
    active_sessions,       \* api/main.py active_sessions: session_id -> session
    s3_objects,            \* the keys of the objects in the S3 bucket
    pipelines,             \* per session_id, the calls of process_video_session
                           \* running and started so far, and how the last
                           \* one to end has ended
    api_call,              \* the last request served and what was answered
    request,               \* request_user_input: where the coroutine stands,
                           \* how its wait has ended, the calls so far
    heartbeat_task         \* the task of _send_periodic_heartbeat: where it
                           \* stands, cancel() called, a send failed, the
                           \* heartbeats sent during this wait

engine_vars == <<tracking_state, op, after_deny, arg_id, arg_track, ret,
                 since_lost>>
detector_vars == <<acquisitions_history, consecutive_possession_count,
                   det_player_track, det_ball_track, det_best, det_ret,
                   best_run>>
session_vars == <<pc, frame_num, frame_count, tracking_initialized, intervals,
                  highlight_possessions, cur_player_track, possession_player_id,
                  cur_suggestions, last_response, sent, calls, summary, cleaned,
                  raised, resources>>
api_vars == <<active_sessions, s3_objects, pipelines, api_call>>
request_vars == <<request, heartbeat_task>>
vars == <<engine_vars, detector_vars, session_vars, api_vars, request_vars>>

\* Python's None, for an optional player id, an optional position or velocity,
\* and an optional TrackingState
None == -1
NoPos == <<>>
NoState == [initialized |-> FALSE]

----------------------------------------------------------------------------
(* Bounds of the model *)

\* constructor argument max_lost_frames (default 30)
max_lost_frames == 2
\* constructor argument history_length (default 10)
history_length == 2

\* the lost counters grow without bound: update_tracking is not called once
\* one of them has reached MaxCount
MaxCount == max_lost_frames + 2

(* Program constants *)
max_reassignment_distance == 150
Sub == 3 * 4
One == Sub * 1500
\* faulty variant of confidence_threshold: a threshold of 0.5
confidence_threshold_half ==
    (5 * One) \div 10
\* constructor argument confidence_threshold (default 0.7)
confidence_threshold ==
    (7 * One) \div 10

\* ids the upstream player tracker hands out
PlayerIds == {0, 1, 2}
\* bbox centres the upstream tracker reports in a frame, in pixels
Positions == {<<0, 0>>}
\* bbox centre of the player picked at initialize_tracking: at the place where
\* the later frames show the players, or two reassignment distances away
InitPositions == {<<0, 0>>, <<2 * max_reassignment_distance, 0>>}

----------------------------------------------------------------------------
(* Helpers *)

Abs(x) == IF x < 0 THEN -x ELSE x
Max(a, b) == IF a >= b THEN a ELSE b
Min(a, b) == IF a <= b THEN a ELSE b

\* math.sqrt on the perfect squares the model produces
Sqrt(n) == CHOOSE r \in 0 .. (Sub * 1000) : r * r = n

\* math.sqrt(dx**2 + dy**2)
Hypot(dx, dy) ==
    IF dy = 0 THEN Abs(dx)
    ELSE IF dx = 0 THEN Abs(dy)
    ELSE Sqrt(dx * dx + dy * dy)

\* a pixel position in sub-pixels
ToSub(p) == <<p[1] * Sub, p[2] * Sub>>

\* player_track is an insertion-ordered dict: a sequence of items with
\* distinct keys
Keys(player_track) == {player_track[i].id : i \in 1 .. Len(player_track)}
InTrack(player_id, player_track) == player_id \in Keys(player_track)
Get(player_track, player_id) ==
    player_track[CHOOSE i \in 1 .. Len(player_track) :
                     player_track[i].id = player_id].data

----------------------------------------------------------------------------
(* EnhancedPlayerTracker *)

initialize_tracking(player_id, position) ==
    [initialized |-> TRUE,
     original_id |-> player_id,
     current_id |-> player_id,
     confidence |-> One,
     lost_frames |-> 0,
     original_lost_frames |-> 0,
     last_known_position |-> position,
     position_history |-> <<position>>,
     velocity_estimate |-> NoPos,
     is_temporary_assignment |-> FALSE,
     id_history |-> {player_id}]

\* deque.append on a deque(maxlen = history_length), then last_known_position
update_position_history(ts, position) ==
    IF ts = NoState THEN ts
    ELSE LET appended == Append(ts.position_history, position)
             n == Len(appended)
         IN [ts EXCEPT
               !.position_history =
                   IF n > history_length
                   THEN SubSeq(appended, n - history_length + 1, n)
                   ELSE appended,
               !.last_known_position = position]

\* sum of positions[i][c] - positions[i-1][c] for i in range(1, k + 1)
RECURSIVE SumVelocities(_, _, _)
SumVelocities(positions, c, k) ==
    IF k = 0 THEN 0
    ELSE (positions[k + 1][c] - positions[k][c]) + SumVelocities(positions, c, k - 1)

\* Returns [pos, ts]: the predicted position in sub-pixels and the tracking
\* state with velocity_estimate (sub-pixels per frame) stored back.
predict_next_position(ts) ==
    IF ts = NoState THEN [pos |-> NoPos, ts |-> ts]
    ELSE IF Len(ts.position_history) < 2
    THEN [pos |-> ToSub(ts.last_known_position), ts |-> ts]
    ELSE LET positions == ts.position_history
             \* for i in range(1, min(5, len(positions)))
             n == Min(5, Len(positions)) - 1
             avg_vx == (SumVelocities(positions, 1, n) * Sub) \div n
             avg_vy == (SumVelocities(positions, 2, n) * Sub) \div n
             last_pos == ToSub(positions[Len(positions)])
         IN [pos |-> <<last_pos[1] + avg_vx, last_pos[2] + avg_vy>>,
             ts |-> [ts EXCEPT !.velocity_estimate = <<avg_vx, avg_vy>>]]

\* faulty variant of calculate_player_confidence: the spatial factor without
\* its weight
spatial_confidence_alone(ts, player_id, track_data, predicted_position) ==
    IF ts = NoState THEN 0
    ELSE
    LET current_pos == ToSub(track_data.bbox_center)
        reference_pos == IF predicted_position # NoPos THEN predicted_position
                         ELSE ToSub(ts.last_known_position)
        distance == Hypot(current_pos[1] - reference_pos[1],
                          current_pos[2] - reference_pos[2])
    IN Max(0, One - (distance * One) \div (max_reassignment_distance * Sub))

\* Confidence in units of 1/One; predicted_position in sub-pixels or NoPos.
calculate_player_confidence(ts, player_id, track_data, predicted_position) ==
    IF ts = NoState THEN 0
    ELSE
    LET current_pos == ToSub(track_data.bbox_center)
        reference_pos == IF predicted_position # NoPos THEN predicted_position
                         ELSE ToSub(ts.last_known_position)
        distance == Hypot(current_pos[1] - reference_pos[1],
                          current_pos[2] - reference_pos[2])
        spatial_confidence ==
            Max(0, One - (distance * One) \div (max_reassignment_distance * Sub))
        factor1 == (spatial_confidence * 6) \div 10
        expected_velocity == ts.velocity_estimate
        last_pos == ToSub(ts.position_history[Len(ts.position_history)])
        velocity_diff ==
            Hypot(current_pos[1] - last_pos[1] - expected_velocity[1],
                  current_pos[2] - last_pos[2] - expected_velocity[2])
        velocity_confidence == Max(0, One - (velocity_diff * One) \div (100 * Sub))
        factor2 ==
            IF ts.velocity_estimate # NoPos /\ Len(ts.position_history) >= 2
            THEN (velocity_confidence * 4) \div 10
            ELSE 0
    IN factor1 + factor2

\* the loop of find_best_reassignment_candidate over player_track.items(),
\* from item i on, with the best candidate found so far
RECURSIVE BestFrom(_, _, _, _, _, _)
BestFrom(ts, player_track, predicted_position, i, best_candidate, best_confidence) ==
    IF i > Len(player_track)
    THEN [candidate |-> best_candidate, confidence |-> best_confidence]
    ELSE LET player_id == player_track[i].id
             confidence == calculate_player_confidence(
                 ts, player_id, player_track[i].data, predicted_position)
         IN IF confidence > best_confidence /\ confidence > confidence_threshold
            THEN BestFrom(ts, player_track, predicted_position, i + 1,
                          player_id, confidence)
            ELSE BestFrom(ts, player_track, predicted_position, i + 1,
                          best_candidate, best_confidence)

\* Returns [candidate, confidence, ts] (ts: after predict_next_position).
find_best_reassignment_candidate(ts, player_track) ==
    IF ts = NoState THEN [candidate |-> None, confidence |-> 0, ts |-> ts]
    ELSE LET p == predict_next_position(ts)
             best == BestFrom(p.ts, player_track, p.pos, 1, None, 0)
         IN [candidate |-> best.candidate, confidence |-> best.confidence,
             ts |-> p.ts]

Result(id, status, needs) ==
    [tracked_id |-> id, status |-> status, needs_user_input |-> needs]

\* faulty variant of OriginalIsBack: snaps back only once the substitute is gone
OriginalIsBackIfLost(ts, player_track) ==
    /\ InTrack(ts.original_id, player_track)
    /\ ts.current_id # ts.original_id
    /\ ~InTrack(ts.current_id, player_track)

\* "if self.tracking_state.original_id in player_track and current_id != original_id"
OriginalIsBack(ts, player_track) ==
    /\ InTrack(ts.original_id, player_track)
    /\ ts.current_id # ts.original_id

\* update_tracking, first branch: the original player is back
UpdateOriginalReturned(ts, player_track) ==
    LET p == predict_next_position(ts)
        original_confidence == calculate_player_confidence(
            p.ts, ts.original_id, Get(player_track, ts.original_id), p.pos)
        ts1 == [p.ts EXCEPT !.current_id = ts.original_id,
                            !.is_temporary_assignment = FALSE,
                            !.lost_frames = 0,
                            !.original_lost_frames = 0,
                            !.confidence = original_confidence]
        ts2 == update_position_history(
                   ts1, Get(player_track, ts1.current_id).bbox_center)
    IN [ts |-> ts2, ret |-> Result(ts2.current_id, "original_returned", FALSE)]

\* faulty variant of OriginalLostTooLong: off by one
OriginalLostAtLimit(ts) ==
    ts.original_lost_frames >= max_lost_frames

\* "if self.tracking_state.original_lost_frames > self.max_lost_frames"
OriginalLostTooLong(ts) ==
    ts.original_lost_frames > max_lost_frames

\* update_tracking, second branch: the current tracked player is still visible
UpdateCurrentVisible(ts, player_track) ==
    LET p == predict_next_position(ts)
        current_confidence == calculate_player_confidence(
            p.ts, ts.current_id, Get(player_track, ts.current_id), p.pos)
        ts1 == [p.ts EXCEPT !.lost_frames = 0,
                            !.confidence = current_confidence]
        ts2 == update_position_history(
                   ts1, Get(player_track, ts1.current_id).bbox_center)
    IN IF ts2.is_temporary_assignment
       THEN LET ts3 == [ts2 EXCEPT !.original_lost_frames = @ + 1]
            IN IF OriginalLostTooLong(ts3)
               THEN [ts |-> ts3,
                     ret |-> Result(ts3.current_id, "confirm_temporary", TRUE)]
               ELSE [ts |-> ts3,
                     ret |-> Result(ts3.current_id, "temporary_substitute", FALSE)]
       ELSE [ts |-> ts2, ret |-> Result(ts2.current_id, "tracking_normally", FALSE)]

\* "if candidate_id:" (Python truthiness of an Optional[int])
CandidateAccepted(candidate_id) ==
    candidate_id # None /\ candidate_id # 0

\* faulty variant of CountLostFrame: lost_frames mirrors original_lost_frames
CountLostFrameMirrored(ts) ==
    [ts EXCEPT
       !.lost_frames = ts.original_lost_frames + 1,
       !.original_lost_frames =
           IF ts.is_temporary_assignment THEN @ + 1 ELSE ts.lost_frames + 1]

\* the counting that opens the third branch of update_tracking
CountLostFrame(ts) ==
    [ts EXCEPT
       !.lost_frames = @ + 1,
       !.original_lost_frames =
           IF ts.is_temporary_assignment THEN @ + 1 ELSE ts.lost_frames + 1]

\* faulty variant of WithinLostLimit: comparison reversed
WithinLostLimitReversed(ts) ==
    ts.lost_frames >= max_lost_frames

\* "if self.tracking_state.lost_frames <= self.max_lost_frames"
WithinLostLimit(ts) ==
    ts.lost_frames <= max_lost_frames

\* faulty variant of FullyLost: only the first frame past the limit counts
FullyLostOnce(ts) ==
    ts.lost_frames = max_lost_frames + 1

\* faulty variant of FullyLost: off by one
FullyLostAtLimit(ts) ==
    ts.lost_frames >= max_lost_frames

\* "if self.tracking_state.lost_frames > self.max_lost_frames"
FullyLost(ts) ==
    ts.lost_frames > max_lost_frames

\* faulty variant of UpdateCurrentLost: the tracker reports the lost player
\* as still tracked
UpdateCurrentLostKeepingId(ts, player_track) ==
    LET ts1 == CountLostFrame(ts)
    IN IF FullyLost(ts1)
       THEN [ts |-> ts1, ret |-> Result(None, "need_user_selection", TRUE)]
       ELSE [ts |-> ts1, ret |-> Result(ts1.current_id, "player_lost", FALSE)]

\* update_tracking, third branch: the current tracked player is not visible
UpdateCurrentLost(ts, player_track) ==
    LET ts1 == CountLostFrame(ts)
        found == find_best_reassignment_candidate(ts1, player_track)
        searched == WithinLostLimit(ts1)
        ts2 == IF searched THEN found.ts ELSE ts1
    IN IF searched /\ CandidateAccepted(found.candidate)
       THEN LET candidate_id == found.candidate
                ts3 == [ts2 EXCEPT
                          !.current_id = candidate_id,
                          !.is_temporary_assignment =
                              (candidate_id # ts.original_id),
                          !.confidence = found.confidence,
                          !.lost_frames = 0]
                ts4 == update_position_history(
                           ts3, Get(player_track, candidate_id).bbox_center)
            IN [ts |-> ts4, ret |-> Result(candidate_id, "reassigned", FALSE)]
       ELSE IF FullyLost(ts2)
       THEN [ts |-> ts2, ret |-> Result(None, "need_user_selection", TRUE)]
       ELSE [ts |-> ts2, ret |-> Result(None, "player_lost", FALSE)]

\* Returns [ts, ret]: the tracking state after the call and the returned
\* (tracked_player_id, status_message, needs_user_input).
update_tracking(ts, player_track) ==
    IF ts = NoState
    THEN [ts |-> ts, ret |-> Result(None, "no_tracking_initialized", FALSE)]
    ELSE IF OriginalIsBack(ts, player_track)
    THEN UpdateOriginalReturned(ts, player_track)
    ELSE IF InTrack(ts.current_id, player_track)
    THEN UpdateCurrentVisible(ts, player_track)
    ELSE UpdateCurrentLost(ts, player_track)

\* faulty variant of confirm_reassignment: the chosen player becomes the
\* original target
confirm_reassignment_as_original(ts, player_id, player_track) ==
    IF ts # NoState /\ InTrack(player_id, player_track)
    THEN update_position_history(
             [ts EXCEPT !.original_id = player_id,
                        !.current_id = player_id,
                        !.is_temporary_assignment = FALSE,
                        !.lost_frames = 0,
                        !.original_lost_frames = 0,
                        !.confidence = One],
             Get(player_track, player_id).bbox_center)
    ELSE ts

\* faulty variant of confirm_reassignment: original_lost_frames is not zeroed
confirm_reassignment_keeping_count(ts, player_id, player_track) ==
    IF ts # NoState /\ InTrack(player_id, player_track)
    THEN update_position_history(
             [ts EXCEPT !.current_id = player_id,
                        !.is_temporary_assignment = (player_id # ts.original_id),
                        !.lost_frames = 0,
                        !.confidence = One],
             Get(player_track, player_id).bbox_center)
    ELSE ts

\* Returns the tracking state after the call (the method returns nothing).
confirm_reassignment(ts, player_id, player_track) ==
    IF ts # NoState /\ InTrack(player_id, player_track)
    THEN update_position_history(
             [ts EXCEPT !.current_id = player_id,
                        !.is_temporary_assignment = (player_id # ts.original_id),
                        !.lost_frames = 0,
                        !.original_lost_frames = 0,
                        !.confidence = One],
             Get(player_track, player_id).bbox_center)
    ELSE ts

\* faulty variant of confirm_temporary_as_permanent: id_history is not extended
confirm_temporary_without_history(ts) ==
    IF ts # NoState /\ ts.is_temporary_assignment
    THEN [ts |-> [ts EXCEPT !.original_id = ts.current_id,
                            !.is_temporary_assignment = FALSE,
                            !.original_lost_frames = 0,
                            !.confidence = One],
          ret |-> TRUE]
    ELSE [ts |-> ts, ret |-> FALSE]

\* Returns [ts, ret].
confirm_temporary_as_permanent(ts) ==
    IF ts # NoState /\ ts.is_temporary_assignment
    THEN [ts |-> [ts EXCEPT !.original_id = ts.current_id,
                            !.is_temporary_assignment = FALSE,
                            !.original_lost_frames = 0,
                            !.confidence = One,
                            !.id_history = @ \cup {ts.current_id}],
          ret |-> TRUE]
    ELSE [ts |-> ts, ret |-> FALSE]

\* faulty variant of deny_temporary_assignment: the substitute stays current
deny_temporary_keeping_current(ts) ==
    IF ts # NoState
    THEN [ts |-> [ts EXCEPT !.is_temporary_assignment = FALSE,
                            !.lost_frames = max_lost_frames + 1,
                            !.original_lost_frames = max_lost_frames + 1],
          ret |-> TRUE]
    ELSE [ts |-> ts, ret |-> FALSE]

\* faulty variant of deny_temporary_assignment: counters set to the limit itself
deny_temporary_at_limit(ts) ==
    IF ts # NoState
    THEN [ts |-> [ts EXCEPT !.current_id = ts.original_id,
                            !.is_temporary_assignment = FALSE,
                            !.lost_frames = max_lost_frames,
                            !.original_lost_frames = max_lost_frames],
          ret |-> TRUE]
    ELSE [ts |-> ts, ret |-> FALSE]

\* faulty variant of deny_temporary_assignment: each denial pushes the
\* counters one further past the limit
deny_temporary_counting_up(ts) ==
    IF ts # NoState
    THEN [ts |-> [ts EXCEPT !.current_id = ts.original_id,
                            !.is_temporary_assignment = FALSE,
                            !.lost_frames =
                                Max(ts.lost_frames, max_lost_frames) + 1,
                            !.original_lost_frames =
                                Max(ts.original_lost_frames, max_lost_frames) + 1],
          ret |-> TRUE]
    ELSE [ts |-> ts, ret |-> FALSE]

\* Returns [ts, ret].
deny_temporary_assignment(ts) ==
    IF ts # NoState
    THEN [ts |-> [ts EXCEPT !.current_id = ts.original_id,
                            !.is_temporary_assignment = FALSE,
                            !.lost_frames = max_lost_frames + 1,
                            !.original_lost_frames = max_lost_frames + 1],
          ret |-> TRUE]
    ELSE [ts |-> ts, ret |-> FALSE]

----------------------------------------------------------------------------
(* StreamingBallAcquisitionDetector                                        *)
(*                                                                         *)
(* A bounding box is <<x1, y1, x2, y2>> in pixels, <<>> the empty list.    *)
(* The code uses a distance only to compare it with another distance or    *)
(* with possession_threshold, so measure_distance is kept as the square    *)
(* of the Euclidean distance and the threshold is squared where the two    *)
(* are compared; a containment ratio is kept as the fraction num / den.    *)

\* __init__
possession_threshold == 50
min_frames == 10
containment_threshold == [num |-> 7, den |-> 10]

\* "no possession" / "no candidate"
NoCandidate == -1
\* best_player_id of a call that returned before computing it
NotComputed == -2

\* utils.get_bbox_center
get_bbox_center(bbox) ==
    <<(bbox[1] + bbox[3]) \div 2, (bbox[2] + bbox[4]) \div 2>>

\* utils.measure_distance, squared
measure_distance(p1, p2) ==
    (p1[1] - p2[1]) * (p1[1] - p2[1]) + (p1[2] - p2[2]) * (p1[2] - p2[2])

get_key_basketball_player_assignment_points(player_bbox, ball_center) ==
    LET ball_center_x == ball_center[1]
        ball_center_y == ball_center[2]
        x1 == player_bbox[1]
        y1 == player_bbox[2]
        x2 == player_bbox[3]
        y2 == player_bbox[4]
        width == x2 - x1
        height == y2 - y1
    IN (IF ball_center_y > y1 /\ ball_center_y < y2
        THEN << <<x1, ball_center_y>>, <<x2, ball_center_y>> >>
        ELSE << >>)
       \o
       (IF ball_center_x > x1 /\ ball_center_x < x2
        THEN << <<ball_center_x, y1>>, <<ball_center_x, y2>> >>
        ELSE << >>)
       \o
       << <<x1 + width \div 2, y1>>,
          <<x2, y1>>,
          <<x1, y1>>,
          <<x2, y1 + height \div 2>>,
          <<x1, y1 + height \div 2>>,
          <<x1 + width \div 2, y1 + height \div 2>>,
          <<x2, y2>>,
          <<x1, y2>>,
          <<x1 + width \div 2, y2>>,
          <<x1 + width \div 2, y1 + height \div 3>> >>

calculate_ball_containment_ratio(player_bbox, ball_bbox) ==
    LET intersection_x1 == Max(player_bbox[1], ball_bbox[1])
        intersection_y1 == Max(player_bbox[2], ball_bbox[2])
        intersection_x2 == Min(player_bbox[3], ball_bbox[3])
        intersection_y2 == Min(player_bbox[4], ball_bbox[4])
        intersection_area == (intersection_x2 - intersection_x1)
                               * (intersection_y2 - intersection_y1)
        ball_area == (ball_bbox[3] - ball_bbox[1]) * (ball_bbox[4] - ball_bbox[2])
    IN IF intersection_x2 < intersection_x1 \/ intersection_y2 < intersection_y1
       THEN [num |-> 0, den |-> 1]
       ELSE [num |-> intersection_area, den |-> ball_area]

find_minimum_distance_to_ball(ball_center, player_bbox) ==
    LET key_points ==
            get_key_basketball_player_assignment_points(player_bbox, ball_center)
        distances == {measure_distance(ball_center, key_points[i]) :
                          i \in 1 .. Len(key_points)}
    IN CHOOSE d \in distances : \A e \in distances : d <= e

\* containment > self.containment_threshold, with a ball of area zero taken
\* as not contained (the model's balls all have a positive area)
ContainmentAtThreshold(containment) ==
    containment.num * containment_threshold.den
        >= containment_threshold.num * containment.den

HighContainment(containment) ==
    containment.num * containment_threshold.den
        > containment_threshold.num * containment.den

\* the loop over player_tracks_frame.items(), from item i on: the two lists
\* of (player_id, min_distance)
RECURSIVE SortCandidates(_, _, _, _, _, _)
SortCandidates(ball_center, player_tracks_frame, ball_bbox, i, high_containment_players, regular_distance_players) ==
    IF i > Len(player_tracks_frame)
    THEN [high_containment_players |-> high_containment_players,
          regular_distance_players |-> regular_distance_players]
    ELSE LET player_id == player_tracks_frame[i].id
             player_bbox == player_tracks_frame[i].data.bbox
             containment ==
                 calculate_ball_containment_ratio(player_bbox, ball_bbox)
             min_distance ==
                 find_minimum_distance_to_ball(ball_center, player_bbox)
         IN IF player_bbox = << >>
            THEN SortCandidates(ball_center, player_tracks_frame, ball_bbox,
                     i + 1, high_containment_players, regular_distance_players)
            ELSE IF HighContainment(containment)
            THEN SortCandidates(ball_center, player_tracks_frame, ball_bbox,
                     i + 1,
                     Append(high_containment_players, <<player_id, min_distance>>),
                     regular_distance_players)
            ELSE SortCandidates(ball_center, player_tracks_frame, ball_bbox,
                     i + 1, high_containment_players,
                     Append(regular_distance_players, <<player_id, min_distance>>))

\* max(players, key=lambda x: x[1]) and min(...): the first of the extremes
MaxByDistance(players) ==
    players[CHOOSE i \in 1 .. Len(players) :
                /\ \A j \in 1 .. Len(players) : players[j][2] <= players[i][2]
                /\ \A j \in 1 .. (i - 1) : players[j][2] < players[i][2]]

MinByDistance(players) ==
    players[CHOOSE i \in 1 .. Len(players) :
                /\ \A j \in 1 .. Len(players) : players[j][2] >= players[i][2]
                /\ \A j \in 1 .. (i - 1) : players[j][2] > players[i][2]]

\* best_candidate[1] < self.possession_threshold
WithinThresholdInclusive(distance) ==
    distance <= possession_threshold * possession_threshold

WithinPossessionThreshold(distance) ==
    distance < possession_threshold * possession_threshold

\* the choice among the two lists, lines 140-151
PickCandidate(lists) ==
    IF lists.high_containment_players # << >>
    THEN MaxByDistance(lists.high_containment_players)[1]
    ELSE IF /\ lists.regular_distance_players # << >>
            /\ WithinPossessionThreshold(
                   MinByDistance(lists.regular_distance_players)[2])
    THEN MinByDistance(lists.regular_distance_players)[1]
    ELSE NoCandidate

find_best_candidate_for_possession(ball_center, player_tracks_frame, ball_bbox) ==
    PickCandidate(SortCandidates(ball_center, player_tracks_frame, ball_bbox,
                                 1, << >>, << >>))

\* ball_track.get(1, {}): the entry of the ball, << >> for the empty dict
BallInfo(ball_track) ==
    IF InTrack(1, ball_track) THEN <<Get(ball_track, 1)>> ELSE << >>

\* not ball_info, or not ball_info.get('bbox', [])
BallMissing(ball_track) ==
    \/ BallInfo(ball_track) = << >>
    \/ BallInfo(ball_track)[1].bbox = << >>

\* res = -1 if len(history) == 0 else history[-1]
DefaultNoPossession(history) == NoCandidate

DefaultResult(history) ==
    IF Len(history) = 0 THEN NoCandidate ELSE history[Len(history)]

\* self.consecutive_possession_count.get(best_player_id, 0)
CountOf(count, player_id) ==
    IF \E e \in count : e[1] = player_id
    THEN (CHOOSE e \in count : e[1] = player_id)[2]
    ELSE 0

\* the state of a detector: det.acquisitions_history and
\* det.consecutive_possession_count
Detector(history, count) ==
    [acquisitions_history |-> history, consecutive_possession_count |-> count]

\* what process_frame leaves: the detector after the call, the value
\* returned and best_player_id
Processed(history, count, res, best_player_id) ==
    [det |-> Detector(Append(history, res), count),
     res |-> res,
     best_player_id |-> best_player_id]

\* lines 183-193, res being the default result
ConfirmPossession(det, res, best_player_id) ==
    IF best_player_id # NoCandidate
    THEN LET number_of_consecutive_frames ==
                 CountOf(det.consecutive_possession_count, best_player_id) + 1
         IN Processed(det.acquisitions_history,
                      {<<best_player_id, number_of_consecutive_frames>>},
                      IF number_of_consecutive_frames >= min_frames
                      THEN best_player_id
                      ELSE res,
                      best_player_id)
    ELSE Processed(det.acquisitions_history, {}, res, best_player_id)

process_frame(det, player_track, ball_track) ==
    IF BallMissing(ball_track)
    THEN Processed(det.acquisitions_history,
                   det.consecutive_possession_count,
                   DefaultResult(det.acquisitions_history),
                   NotComputed)
    ELSE ConfirmPossession(
             det,
             DefaultResult(det.acquisitions_history),
             find_best_candidate_for_possession(
                 BallInfo(ball_track)[1].bbox_center, player_track,
                 BallInfo(ball_track)[1].bbox))

----------------------------------------------------------------------------
(* VideoProcessingService: the frame loop of a session                     *)
(*                                                                         *)
(* A message sent to the client is [type, frame_num, message]; a human     *)
(* response is [kind, value], the text received from the client as the     *)
(* code reads it.  The possession result of a frame is an input of the     *)
(* loop: any value StreamingBallAcquisitionDetector.process_frame can      *)
(* return (the detector itself is SpecDetector).                           *)

Msg(type, n, message) == [type |-> type, frame_num |-> n, message |-> message]
\* websocket_service.send_status_update / request_user_input / send_error /
\* send_completion
StatusUpdate(n, message) == Msg("status", n, message)
UserInput(input_type, n) == Msg("user_input", n, input_type)
\* send_error(websocket, message, frame_num=0, fps=0.0)
default_frame_num == 0
send_error(n) == Msg("error", n, "exception")
Completion(n) == Msg("completed", n, "summary")

\* the responses of the client to a request
Response(kind, value) == [kind |-> kind, value |-> value]
NoResponse == Response("none", 0)

\* request_user_input raises: asyncio.TimeoutError from wait_for, ValueError
\* for a text that is not JSON
RequestRaises(response) == response.kind \in {"timeout", "invalid_json"}

\* _wait_for_initial_selection: int(pid) raises for a pid that is no integer
InitialSelectionRaises(response) ==
    RequestRaises(response) \/ response.kind = "player_id_text"

\* pid = response.get("player_id"); int(pid) if pid is not None else None
wait_for_initial_selection(response) ==
    IF response.kind = "player_id" THEN response.value ELSE None

\* _wait_for_temp_confirmation: bool(response.get("confirmed", False))
wait_for_temp_confirmation(response) ==
    response.kind = "confirmed" /\ response.value = 1

\* _wait_for_reassignment: int(...) raises for a value that is no integer
ReassignmentRaises(response) ==
    \/ RequestRaises(response)
    \/ response.kind \in {"player_id_text", "suggestion_index_text"}

wait_for_reassignment(response, suggestions) ==
    IF response.kind = "choice_0" THEN None
    ELSE IF response.kind = "player_id" THEN response.value
    ELSE IF response.kind = "suggestion_index"
    THEN LET idx == response.value - 1
         IN IF 0 <= idx /\ idx < Len(suggestions)
            THEN suggestions[idx + 1][1]
            ELSE None
    ELSE None

\* EnhancedPlayerTracker.get_reassignment_suggestions.
\* The confidence of each item of player_track, in its order
Confidences(ts, player_track, predicted_position) ==
    [i \in 1 .. Len(player_track) |->
        calculate_player_confidence(ts, player_track[i].id,
                                    player_track[i].data, predicted_position)]

\* suggestions.sort(key=lambda x: x[1], reverse=True) (a stable sort) and
\* suggestions[:top_n]
SortSuggestions(player_track, confidences, top_n) ==
    LET n == Len(player_track)
        rank(i) == Cardinality({j \in 1 .. n :
                        \/ confidences[j] > confidences[i]
                        \/ confidences[j] = confidences[i] /\ j < i})
        sorted == [k \in 1 .. n |->
                      LET i == CHOOSE i \in 1 .. n : rank(i) = k - 1
                      IN <<player_track[i].id, confidences[i]>>]
    IN SubSeq(sorted, 1, Min(top_n, n))

\* p is what predict_next_position returned
SuggestionsFrom(p, player_track, top_n) ==
    [suggestions |->
         SortSuggestions(player_track,
                         Confidences(p.ts, player_track, p.pos), top_n),
     ts |-> p.ts]

\* the suggestions and the tracking state predict_next_position leaves
get_reassignment_suggestions(ts, player_track, top_n) ==
    SuggestionsFrom(predict_next_position(ts), player_track, top_n)

\* websocket_service.send_heartbeat: {"type": "heartbeat", "timestamp": ...}
Heartbeat == Msg("heartbeat", None, "timestamp")

\* S3Service.download_video_to_temp returns: the temporary file exists and
\* temp_video_path names it
Downloaded(r) == [r EXCEPT !.temp_video_path = 1, !.temp_file = "present"]
\* S3Service.download_video_to_temp raises: head_object failed (no file was
\* created), or download_file failed after NamedTemporaryFile(delete=False)
\* created the file; temp_video_path stays None
DownloadFailed(r, created) ==
    [r EXCEPT !.temp_file = IF created THEN "present" ELSE "none"]

\* S3Service.cleanup_temp_file: os.unlink, a failure is printed, not raised
cleanup_temp_file(file, fails) ==
    IF file = "present" /\ ~fails THEN "removed" ELSE file

\* S3Service.cleanup_s3_object: delete_object, False on a failure
cleanup_s3_object(object, fails) ==
    IF fails THEN object ELSE "removed"

\* _cleanup_processing_resources(session, temp_video_path)
cleanup_processing_resources(r, temp_fails, s3_fails) ==
    [r EXCEPT
        !.temp_file = IF r.temp_video_path # None
                      THEN cleanup_temp_file(@, temp_fails)
                      ELSE @,
        !.s3_object = cleanup_s3_object(@, s3_fails),
        !.attempted = (IF r.temp_video_path # None THEN {"temp_file"} ELSE {})
                          \cup {"s3_object"}]

\* highlight_possessions: a dict from interval to a dict from player id to
\* count, both in insertion order: a sequence of [interval, counts] with
\* counts a sequence of <<player_id, count>>
EmptyPossessions(interval_list) ==
    [i \in 1 .. Len(interval_list) |->
        [interval |-> interval_list[i], counts |-> << >>]]

\* counts[player_id] = counts.get(player_id, 0) + 1
Increment(counts, player_id) ==
    IF \E k \in 1 .. Len(counts) : counts[k][1] = player_id
    THEN [k \in 1 .. Len(counts) |->
             IF counts[k][1] = player_id
             THEN <<player_id, counts[k][2] + 1>>
             ELSE counts[k]]
    ELSE Append(counts, <<player_id, 1>>)

\* while intervals and frame_num > end_f: intervals.pop(0), end_f being the
\* end of the interval that was the head before the loop
RECURSIVE PopCompleted(_, _, _)
PopCompleted(pending, n, end_f) ==
    IF pending # << >> /\ n > end_f
    THEN PopCompleted(Tail(pending), n, end_f)
    ELSE pending

\* the tally of one frame: the pending intervals and the possessions after it
TallyFrame(pending, possessions, n, player_id) ==
    IF pending = << >>
    THEN [intervals |-> pending, highlight_possessions |-> possessions]
    ELSE LET current_interval == pending[1]
             start_f == current_interval[1]
             end_f == current_interval[2]
         IN [intervals |-> PopCompleted(pending, n, end_f),
             highlight_possessions |->
                 IF start_f <= n /\ n <= end_f /\ player_id # NoCandidate
                 THEN [k \in 1 .. Len(possessions) |->
                          IF possessions[k].interval = current_interval
                          THEN [possessions[k] EXCEPT
                                   !.counts = Increment(@, player_id)]
                          ELSE possessions[k]]
                 ELSE possessions]

\* the first of the entries with the smallest count
MinByCount(counts) ==
    counts[CHOOSE i \in 1 .. Len(counts) :
               /\ \A j \in 1 .. Len(counts) : counts[j][2] >= counts[i][2]
               /\ \A j \in 1 .. (i - 1) : counts[j][2] > counts[i][2]]

\* max(possession_counts.items(), key=lambda x: x[1]): the first of the
\* entries with the largest count
MaxByCount(counts) ==
    counts[CHOOSE i \in 1 .. Len(counts) :
               /\ \A j \in 1 .. Len(counts) : counts[j][2] <= counts[i][2]
               /\ \A j \in 1 .. (i - 1) : counts[j][2] < counts[i][2]]

NoWinner == [player_id |-> None, frames |-> 0]

\* _generate_final_summary: one entry per interval
HighlightSummary(entry, id_history) ==
    IF entry.counts = << >>
    THEN [interval |-> entry.interval, possessions |-> << >>,
          winner |-> NoWinner, tracked_player_won |-> FALSE]
    ELSE LET winner == MaxByCount(entry.counts)
         IN [interval |-> entry.interval, possessions |-> entry.counts,
             winner |-> [player_id |-> winner[1], frames |-> winner[2]],
             tracked_player_won |-> winner[1] \in id_history]

NoSummary == [processed_frames |-> None, tracked_player_ids |-> {},
              highlights |-> << >>]

generate_final_summary(count, possessions, ts) ==
    LET id_history == IF ts # NoState THEN ts.id_history ELSE {}
    IN [processed_frames |-> count,
        tracked_player_ids |-> id_history,
        highlights |-> [k \in 1 .. Len(possessions) |->
                           HighlightSummary(possessions[k], id_history)]]

----------------------------------------------------------------------------
(* Inputs *)

\* what the upstream player tracker reports for one detected player
TrackData == [bbox_center : Positions]
Item(player_id, track_data) == [id |-> player_id, data |-> track_data]

\* the player_track of a frame: each subset of the ids, in each insertion
\* order, with each assignment of positions
PlayerTracks ==
    UNION {{t \in [1 .. n -> [id : PlayerIds, data : TrackData]] :
                \A i, j \in 1 .. n : i # j => t[i].id # t[j].id} :
           n \in 0 .. Cardinality(PlayerIds)}

\* confirm_reassignment reads only player_track[player_id]: the frames that
\* show exactly one player cover the cases of that call
ChoiceTracks == {t \in PlayerTracks : Len(t) = 1}

(* Inputs of the detector *)

\* ids of the players in a frame
DetectorIds == {1, 2}
\* the ball boxes of the model, 20 x 20 pixels
BallBoxes == {<<100, 100, 120, 120>>, <<150, 100, 170, 120>>}
\* the player boxes of the model.  Around the first ball box: it lies inside
\* the first (far from every key point) and inside the second (close to a key
\* point); the third holds 0.4 of it, the fourth is beside it at exactly
\* possession_threshold, the fifth further away, and the sixth holds exactly
\* 0.7 of it, its edge a little further from the ball centre than the third's
PlayerBoxes ==
    {<<40, 40, 240, 400>>, <<90, 60, 190, 300>>, <<112, 60, 212, 260>>,
     <<160, 60, 220, 260>>, <<170, 60, 230, 260>>, <<106, 60, 206, 260>>}

\* what the upstream player tracker reports for a player, as far as the
\* detector reads it; 'bbox' may be empty
BoxData == [bbox : PlayerBoxes \cup {<< >>}]

DetectorTracks ==
    UNION {{t \in [1 .. n -> [id : DetectorIds, data : BoxData]] :
                \A i, j \in 1 .. n : i # j => t[i].id # t[j].id} :
           n \in 0 .. Cardinality(DetectorIds)}

\* the ball_track of a frame: no ball, a ball with an empty bbox, or a ball
ObservedBalls ==
    {<<Item(1, [bbox |-> b, bbox_center |-> get_bbox_center(b)])>> :
         b \in BallBoxes}
BallTracks ==
    {<< >>, <<Item(1, [bbox |-> << >>, bbox_center |-> NoPos])>>}
        \cup ObservedBalls

\* the frames of a run: player 1 holds the ball, player 2 holds it, player 1
\* is too far away from it
RunTracks ==
    {<<Item(1, [bbox |-> <<40, 40, 240, 400>>])>>,
     <<Item(2, [bbox |-> <<40, 40, 240, 400>>])>>,
     <<Item(1, [bbox |-> <<170, 60, 230, 260>>])>>}
RunBallTracks ==
    {<< >>, <<Item(1, [bbox |-> << >>, bbox_center |-> NoPos])>>,
     <<Item(1, [bbox |-> <<100, 100, 120, 120>>,
                bbox_center |-> get_bbox_center(<<100, 100, 120, 120>>)])>>}

\* process_frame is not called once the history holds MaxHistory results
ExtraFrames == 3
MaxHistory == min_frames + ExtraFrames

DetectorInit ==
    /\ acquisitions_history = << >>
    /\ consecutive_possession_count = {}
    /\ det_player_track = << >>
    /\ det_ball_track = << >>
    /\ det_best = NotComputed
    /\ det_ret = NoCandidate
    /\ best_run = [player |-> NoCandidate, len |-> 0]

SessionInit ==
    /\ pc = "start"
    /\ frame_num = 0
    /\ frame_count = 0
    /\ tracking_initialized = FALSE
    /\ intervals = << >>
    /\ highlight_possessions = << >>
    /\ cur_player_track = << >>
    /\ possession_player_id = NoCandidate
    /\ cur_suggestions = << >>
    /\ last_response = NoResponse
    /\ sent = << >>
    /\ calls = << >>
    /\ summary = NoSummary
    /\ cleaned = FALSE
    /\ raised = "none"
    /\ resources = [temp_video_path |-> None, temp_file |-> "none",
                    s3_object |-> "present", attempted |-> {}]

\* the session ids uuid4 hands out in the model
ApiSessions == {1, 2}
\* generate_upload_url: the s3_key of a session, one key per session id
S3Key(session_id) == <<"temp-uploads", session_id>>
Call(endpoint, session_id, s3_key, code) ==
    [endpoint |-> endpoint, session_id |-> session_id, s3_key |-> s3_key,
     code |-> code]
NoKey == <<"", None>>
\* the server as started: active_sessions = {}
ApiInit ==
    /\ active_sessions = << >>
    /\ s3_objects = {}
    /\ pipelines = [s \in ApiSessions |->
                        [running |-> 0, started |-> 0, ended |-> "none"]]
    /\ api_call = Call("none", None, NoKey, 0)

\* no request_user_input call yet, no heartbeat task created
RequestInit ==
    /\ request = [pc |-> "idle", outcome |-> "none", count |-> 0]
    /\ heartbeat_task = [pc |-> "none", cancelled |-> FALSE, failed |-> FALSE,
                         sent |-> 0]

----------------------------------------------------------------------------
(* The tracker, driven through its public operations *)

EngineInit ==
    /\ tracking_state = NoState
    /\ op = "construct"
    /\ after_deny = FALSE
    /\ arg_id = None
    /\ arg_track = <<>>
    /\ ret = None
    /\ since_lost = FALSE

\* every component as constructed
Init ==
    /\ EngineInit
    /\ DetectorInit
    /\ SessionInit
    /\ ApiInit
    /\ RequestInit

Called(name, player_id, player_track) ==
    /\ op' = name
    /\ after_deny' = (op = "deny_temporary_assignment" /\ tracking_state # NoState)
    /\ arg_id' = player_id
    /\ arg_track' = player_track
    /\ UNCHANGED detector_vars
    /\ UNCHANGED <<session_vars, api_vars, request_vars>>

InitializeTracking ==
    \E player_id \in PlayerIds, position \in InitPositions :
        /\ tracking_state' = initialize_tracking(player_id, position)
        /\ Called("initialize_tracking", player_id, <<>>)
        /\ ret' = None
        /\ since_lost' = FALSE

CountersBelowCap ==
    tracking_state # NoState =>
        /\ tracking_state.lost_frames < MaxCount
        /\ tracking_state.original_lost_frames < MaxCount

UpdateTracking ==
    \E player_track \in PlayerTracks :
        /\ CountersBelowCap
        /\ LET r == update_tracking(tracking_state, player_track)
               fully_lost == /\ r.ret.tracked_id = None
                             /\ r.ret.needs_user_input
           IN /\ tracking_state' = r.ts
              /\ ret' = r.ret
              /\ since_lost' = (r.ret.tracked_id = None /\ (since_lost \/ fully_lost))
        /\ Called("update_tracking", None, player_track)

ConfirmReassignment ==
    \E player_id \in PlayerIds, player_track \in ChoiceTracks :
        /\ tracking_state' = confirm_reassignment(tracking_state, player_id, player_track)
        /\ Called("confirm_reassignment", player_id, player_track)
        /\ ret' = None
        /\ since_lost' = FALSE

ConfirmTemporaryAsPermanent ==
    LET r == confirm_temporary_as_permanent(tracking_state)
    IN /\ tracking_state' = r.ts
       /\ ret' = r.ret
       /\ Called("confirm_temporary_as_permanent", None, <<>>)
       /\ UNCHANGED since_lost

DenyTemporaryAssignment ==
    LET r == deny_temporary_assignment(tracking_state)
    IN /\ tracking_state' = r.ts
       /\ ret' = r.ret
       /\ Called("deny_temporary_assignment", None, <<>>)
       /\ UNCHANGED since_lost

\* the tracking state the call leaves does not depend on player_track: the
\* frames that show exactly one player cover the cases of that call
GetReassignmentSuggestions ==
    \E player_track \in ChoiceTracks :
        LET s == get_reassignment_suggestions(tracking_state, player_track, 3)
        IN /\ tracking_state' = s.ts
           /\ ret' = s.suggestions
           /\ Called("get_reassignment_suggestions", None, player_track)
           /\ UNCHANGED since_lost

Next ==
    \/ InitializeTracking
    \/ UpdateTracking
    \/ ConfirmReassignment
    \/ ConfirmTemporaryAsPermanent
    \/ DenyTemporaryAssignment
    \/ GetReassignmentSuggestions

Spec == Init /\ [][Next]_vars

----------------------------------------------------------------------------
(* The detector, driven frame by frame *)

\* the record of a call of process_frame
RunAfter(best) ==
    IF best = NotComputed \/ best = NoCandidate
    THEN [player |-> NoCandidate, len |-> 0]
    ELSE IF best = best_run.player
    THEN [player |-> best, len |-> best_run.len + 1]
    ELSE [player |-> best, len |-> 1]

FrameResult(r) ==
    /\ acquisitions_history' = r.det.acquisitions_history
    /\ consecutive_possession_count' = r.det.consecutive_possession_count
    /\ det_ret' = r.res
    /\ det_best' = r.best_player_id
    /\ best_run' = RunAfter(r.best_player_id)

ProcessFrame ==
    \E player_track \in RunTracks, ball_track \in RunBallTracks :
        /\ Len(acquisitions_history) < MaxHistory
        /\ FrameResult(process_frame(
               Detector(acquisitions_history, consecutive_possession_count),
               player_track, ball_track))
        /\ det_player_track' = player_track
        /\ det_ball_track' = ball_track
        /\ UNCHANGED engine_vars
        /\ UNCHANGED <<session_vars, api_vars, request_vars>>

NextDetector == ProcessFrame

SpecDetector == Init /\ [][NextDetector]_vars

(* find_best_candidate_for_possession alone, on every frame of the model *)

InitCandidate ==
    /\ EngineInit
    /\ SessionInit
    /\ ApiInit
    /\ RequestInit
    /\ acquisitions_history = << >>
    /\ consecutive_possession_count = {}
    /\ det_player_track \in DetectorTracks
    /\ det_ball_track \in ObservedBalls
    /\ det_best = NotComputed
    /\ det_ret = NoCandidate
    /\ best_run = [player |-> NoCandidate, len |-> 0]

FindBestCandidate ==
    /\ det_best = NotComputed
    /\ LET ball_info == BallInfo(det_ball_track)[1]
       IN det_best' = find_best_candidate_for_possession(
                          ball_info.bbox_center, det_player_track,
                          ball_info.bbox)
    /\ UNCHANGED <<acquisitions_history, consecutive_possession_count,
                   det_player_track, det_ball_track, det_ret, best_run>>
    /\ UNCHANGED engine_vars
    /\ UNCHANGED <<session_vars, api_vars, request_vars>>

NextCandidate == FindBestCandidate

SpecCandidate == InitCandidate /\ [][NextCandidate]_vars

----------------------------------------------------------------------------
(* predict_next_position alone, on every position history of the model *)

\* positions the history holds at most (history_length is 10 by default)
MaxPredictHistory == 6
\* bbox centres of the tracked player, in pixels
PredictPositions == {<<0, 0>>, <<10, 0>>, <<0, 20>>}
PredictHistories ==
    UNION {[1 .. n -> PredictPositions] : n \in 1 .. MaxPredictHistory}

\* a TrackingState whose position_history is h: last_known_position is the
\* last position appended, velocity_estimate what an earlier prediction left
Tracked(h, velocity) ==
    [initialize_tracking(1, h[1]) EXCEPT
        !.position_history = h,
        !.last_known_position = h[Len(h)],
        !.velocity_estimate = velocity]

\* velocity_estimate is None until a prediction is made from 2 positions
EarlierEstimates(h, estimates) ==
    IF Len(h) < 2 THEN {NoPos} ELSE {NoPos} \cup estimates

PredictStates ==
    UNION {{Tracked(h, v) : v \in EarlierEstimates(h, {<<Sub, 0>>})} :
           h \in PredictHistories}

FunctionInit(states) ==
    /\ tracking_state \in states
    /\ op = "input"
    /\ after_deny = FALSE
    /\ arg_id = None
    /\ arg_track = << >>
    /\ ret = None
    /\ since_lost = FALSE
    /\ DetectorInit
    /\ SessionInit
    /\ ApiInit
    /\ RequestInit

InitPredict == FunctionInit(PredictStates)

Predicted(p) ==
    /\ tracking_state' = p.ts
    /\ ret' = p.pos

PredictNextPosition ==
    /\ op = "input"
    /\ op' = "predict_next_position"
    /\ Predicted(predict_next_position(tracking_state))
    /\ UNCHANGED <<after_deny, arg_id, arg_track, since_lost>>
    /\ UNCHANGED detector_vars
    /\ UNCHANGED <<session_vars, api_vars, request_vars>>

NextPredict == PredictNextPosition

SpecPredict == InitPredict /\ [][NextPredict]_vars

----------------------------------------------------------------------------
(* calculate_player_confidence alone *)

\* bbox centres of the tracked player and of the candidates, in pixels, on
\* one line: next to each other, within and beyond max_reassignment_distance
ConfidencePositions == {<<0, 0>>, <<30, 0>>, <<60, 0>>}
CandidatePositions == {<<0, 0>>, <<30, 0>>, <<90, 0>>, <<600, 0>>}
ConfidenceHistories ==
    UNION {[1 .. n -> ConfidencePositions] : n \in 1 .. 3}

ConfidenceStates ==
    {NoState} \cup
    UNION {{Tracked(h, v) :
                v \in EarlierEstimates(h, {<<0, 0>>, <<30 * Sub, 0>>})} :
           h \in ConfidenceHistories}

\* predicted_position: None, or a position in sub-pixels
PredictedPositions == {NoPos} \cup {ToSub(p) : p \in CandidatePositions}

InitConfidence == FunctionInit(ConfidenceStates)

CalculatePlayerConfidence ==
    /\ op = "input"
    /\ op' = "calculate_player_confidence"
    /\ \E position \in CandidatePositions,
          predicted_position \in PredictedPositions :
           /\ arg_id' = 2
           /\ arg_track' = <<[id |-> 2, data |-> [bbox_center |-> position]]>>
           /\ ret' = calculate_player_confidence(
                         tracking_state, 2, [bbox_center |-> position],
                         predicted_position)
    /\ UNCHANGED <<tracking_state, after_deny, since_lost>>
    /\ UNCHANGED detector_vars
    /\ UNCHANGED <<session_vars, api_vars, request_vars>>

NextConfidence == CalculatePlayerConfidence

SpecConfidence == InitConfidence /\ [][NextConfidence]_vars

----------------------------------------------------------------------------
(* The session, step by step: a step runs from one point where the loop    *)
(* waits for the client to the next                                        *)

\* frames the video holds at most
MaxFrames == 5
\* ids the upstream player tracker hands out in a session
SessionIds == {1, 2}
\* the player_track of a frame of a session
SessionTracks ==
    {t \in PlayerTracks :
        /\ Keys(t) \subseteq SessionIds
        /\ \A i, j \in 1 .. Len(t) : i < j => t[i].id < t[j].id}
\* the possession result of a frame
PossessionResults == {NoCandidate} \cup SessionIds
\* generate_highlights_frames, sorted: the clips kept as highlights, each
\* (start, start + frames_per_clip) with start a multiple of frames_per_clip;
\* the lists of the model are ascending and their intervals do not overlap
IntervalLists ==
    {<< >>,
     << <<0, 2>> >>,
     << <<0, 1>>, <<2, 3>> >>,
     << <<1, 2>>, <<3, 4>> >>}
\* what the client may answer to a request
Responses ==
    {Response(k, 0) : k \in {"timeout", "disconnect", "invalid_json",
                             "player_id_null", "player_id_text", "choice_0",
                             "suggestion_index_text"}}
        \cup {Response("player_id", v) : v \in SessionIds \cup {3}}
        \cup {Response("confirmed", v) : v \in {0, 1}}
        \cup {Response("suggestion_index", v) : v \in 0 .. 3}

Waiting == {"wait_initial", "wait_confirm", "wait_reassign"}

\* a session leaves the record of the engine's last call and the detector
\* of SpecDetector alone
OutsideSessionUnchanged ==
    /\ UNCHANGED <<op, after_deny, arg_id, arg_track, ret, since_lost>>
    /\ UNCHANGED detector_vars
    /\ UNCHANGED <<api_vars, request_vars>>

\* the finally of process_video_session: each cleanup step succeeds or fails
CleanedUp(r) ==
    /\ cleaned' = TRUE
    /\ \E temp_fails, s3_fails \in BOOLEAN :
           resources' = cleanup_processing_resources(r, temp_fails, s3_fails)

\* the status updates of process_video_session before the frame loop
StartupMessages ==
    <<StatusUpdate(0, "Downloading video from S3..."),
      StatusUpdate(0, "Video loaded"),
      StatusUpdate(0, "Initializing AI models...")>>

\* process_video_session up to the frame loop
StartSession ==
    /\ OutsideSessionUnchanged
    /\ pc = "start"
    /\ \E interval_list \in IntervalLists :
           /\ intervals' = interval_list
           /\ highlight_possessions' = EmptyPossessions(interval_list)
    /\ sent' = Append(StartupMessages, StatusUpdate(0, "Starting processing"))
    /\ resources' = Downloaded(resources)
    /\ pc' = "read"
    /\ UNCHANGED <<frame_num, frame_count, tracking_initialized, cur_player_track,
                   possession_player_id, cur_suggestions, last_response, calls,
                   summary, cleaned, raised, tracking_state>>

\* an exception leaves _process_video_frames and process_video_session: each
\* sends an error event, then the cleanup runs
Abort(cause) ==
    /\ pc' = "failed"
    /\ raised' = cause
    /\ sent' = <<send_error(default_frame_num), send_error(default_frame_num)>>
    /\ CleanedUp(resources)
    /\ calls' = << >>
    /\ UNCHANGED <<frame_num, frame_count, tracking_initialized, intervals,
                   highlight_possessions, cur_suggestions, summary, tracking_state>>

\* WebSocketDisconnect: _process_video_frames returns, the cleanup runs
Disconnected ==
    /\ pc' = "disconnected"
    /\ sent' = << >>
    /\ CleanedUp(resources)
    /\ calls' = << >>
    /\ UNCHANGED <<frame_num, frame_count, tracking_initialized, intervals,
                   highlight_possessions, cur_suggestions, summary, raised,
                   tracking_state>>

\* frame_count += 1; frame_num += 1; continue, before tracking is initialized
SkipFrame(messages) ==
    /\ pc' = "read"
    /\ sent' = messages
    /\ calls' = << >>
    /\ frame_num' = frame_num + 1
    /\ frame_count' = frame_count + 1
    /\ UNCHANGED <<tracking_initialized, intervals, highlight_possessions,
                   cur_suggestions, summary, cleaned, resources, raised, tracking_state>>

\* if frame_num % 10 == 0 or frame_num == total_frames - 1
PeriodicStatus(n) ==
    IF n % 10 = 0 \/ n = MaxFrames - 1
    THEN <<StatusUpdate(n, "Processing frames...")>>
    ELSE << >>

\* the rest of a frame once the tracking is resolved: the tally (t is what
\* TallyFrame returned), the periodic status, the counters
Tallied(t, ts, initialized, messages, engine_calls) ==
    /\ pc' = "read"
    /\ tracking_state' = ts
    /\ tracking_initialized' = initialized
    /\ intervals' = t.intervals
    /\ highlight_possessions' = t.highlight_possessions
    /\ sent' = messages \o PeriodicStatus(frame_num)
    /\ calls' = engine_calls
    /\ frame_num' = frame_num + 1
    /\ frame_count' = frame_count + 1
    /\ UNCHANGED <<cur_suggestions, summary, cleaned, resources, raised>>

FinishFrame(ts, initialized, messages, engine_calls) ==
    Tallied(TallyFrame(intervals, highlight_possessions, frame_num,
                       possession_player_id'),
            ts, initialized, messages, engine_calls)

\* _handle_tracking_user_input, second half: the reassignment request
ReassignmentNeeded(ts) ==
    \/ ~ts.is_temporary_assignment
    \/ ts.lost_frames > max_lost_frames

\* s is what get_reassignment_suggestions returned
Suggested(s, initialized, messages, engine_calls) ==
    /\ pc' = "wait_reassign"
    /\ tracking_state' = s.ts
    /\ tracking_initialized' = initialized
    /\ cur_suggestions' = s.suggestions
    /\ sent' = Append(messages, UserInput("reassignment_selection", frame_num))
    /\ calls' = Append(engine_calls, "get_reassignment_suggestions")
    /\ UNCHANGED <<frame_num, frame_count, intervals, highlight_possessions,
                   summary, cleaned, resources, raised>>

RequestReassignment(ts, initialized, messages, engine_calls) ==
    Suggested(get_reassignment_suggestions(ts, cur_player_track', 3),
              initialized, messages, engine_calls)

\* _handle_tracking_user_input, first half: the confirmation request
RequestConfirmation(ts, initialized, messages, engine_calls) ==
    /\ pc' = "wait_confirm"
    /\ tracking_state' = ts
    /\ tracking_initialized' = initialized
    /\ sent' = Append(messages, UserInput("confirmation", frame_num))
    /\ calls' = engine_calls
    /\ UNCHANGED <<frame_num, frame_count, intervals, highlight_possessions,
                   cur_suggestions, summary, cleaned, resources, raised>>

\* what follows update_tracking in the frame, r being what it returned
Resolve(r, initialized, messages, engine_calls) ==
    IF ~r.ret.needs_user_input
    THEN FinishFrame(r.ts, initialized, messages, engine_calls)
    ELSE IF r.ts.is_temporary_assignment
    THEN RequestConfirmation(r.ts, initialized, messages, engine_calls)
    ELSE RequestReassignment(r.ts, initialized, messages, engine_calls)

\* update_tracking and what follows it in the frame
TrackFrame(ts, initialized, messages, engine_calls) ==
    Resolve(update_tracking(ts, cur_player_track'), initialized, messages,
            Append(engine_calls, "update_tracking"))

\* cap.read(), the external trackers, the possession detector, and the frame
\* up to its first request to the client
ReadFrame ==
    /\ OutsideSessionUnchanged
    /\ pc = "read"
    /\ frame_num < MaxFrames
    /\ \E track \in SessionTracks, player_id \in PossessionResults :
           /\ cur_player_track' = track
           /\ possession_player_id' = player_id
           /\ last_response' = NoResponse
           /\ IF ~tracking_initialized
              THEN IF Keys(track) # {}
                   THEN /\ pc' = "wait_initial"
                        /\ sent' = <<UserInput("player_selection", frame_num)>>
                        /\ calls' = << >>
                        /\ UNCHANGED <<frame_num, frame_count,
                               tracking_initialized, intervals,
                               highlight_possessions, cur_suggestions, summary,
                               cleaned, resources, raised, tracking_state>>
                   ELSE SkipFrame(<<StatusUpdate(frame_num,
                                       "No players detected in frame. Waiting...")>>)
              ELSE TrackFrame(tracking_state, tracking_initialized, << >>, << >>)

\* player_tracker.process_frame or ball_tracker.process_frame raises
TrackerFails ==
    /\ OutsideSessionUnchanged
    /\ pc = "read"
    /\ frame_num < MaxFrames
    /\ Abort("tracker")
    /\ last_response' = NoResponse
    /\ UNCHANGED <<cur_player_track, possession_player_id>>

\* cap.read() returns no frame: _generate_final_summary, then the cleanup
EndOfVideo ==
    /\ OutsideSessionUnchanged
    /\ pc = "read"
    /\ pc' = "completed"
    /\ summary' = generate_final_summary(frame_count, highlight_possessions,
                                         tracking_state)
    /\ sent' = <<StatusUpdate(frame_num, "Generating highlights..."),
                 Completion(frame_num)>>
    /\ CleanedUp(resources)
    /\ calls' = << >>
    /\ last_response' = NoResponse
    /\ UNCHANGED <<frame_num, frame_count, tracking_initialized, intervals,
                   highlight_possessions, cur_player_track, possession_player_id,
                   cur_suggestions, raised, tracking_state>>

\* selected is not None and selected in cur_player_ids
ValidSelection(selected, cur_player_ids) ==
    selected # None /\ selected \in cur_player_ids

\* the answer to the player_selection request
InitialSelection ==
    /\ OutsideSessionUnchanged
    /\ pc = "wait_initial"
    /\ \E answer \in Responses :
           /\ last_response' = answer
           /\ UNCHANGED <<cur_player_track, possession_player_id>>
           /\ IF answer.kind = "disconnect" THEN Disconnected
              ELSE IF InitialSelectionRaises(answer) THEN Abort("human_input")
              ELSE LET selected == wait_for_initial_selection(answer)
                   IN IF ValidSelection(selected, Keys(cur_player_track))
                      THEN TrackFrame(
                               initialize_tracking(selected,
                                   Get(cur_player_track, selected).bbox_center),
                               TRUE,
                               <<StatusUpdate(frame_num, "Tracking player ID")>>,
                               <<"initialize_tracking">>)
                      ELSE SkipFrame(<<StatusUpdate(frame_num,
                                          "Waiting for valid initial selection")>>)

\* after the confirmation or the denial: if not is_temporary_assignment or
\* lost_frames > max_lost_frames
AfterConfirmation(ts, messages, engine_calls) ==
    IF ReassignmentNeeded(ts)
    THEN RequestReassignment(ts, tracking_initialized, messages, engine_calls)
    ELSE FinishFrame(ts, tracking_initialized, messages, engine_calls)

\* the answer to the confirmation request
TempConfirmation ==
    /\ OutsideSessionUnchanged
    /\ pc = "wait_confirm"
    /\ \E answer \in Responses :
           /\ last_response' = answer
           /\ UNCHANGED <<cur_player_track, possession_player_id>>
           /\ IF answer.kind = "disconnect" THEN Disconnected
              ELSE IF RequestRaises(answer) THEN Abort("human_input")
              ELSE IF wait_for_temp_confirmation(answer)
              THEN AfterConfirmation(
                       confirm_temporary_as_permanent(tracking_state).ts,
                       <<StatusUpdate(frame_num,
                                      "Temporary assignment confirmed")>>,
                       <<"confirm_temporary_as_permanent">>)
              ELSE AfterConfirmation(
                       deny_temporary_assignment(tracking_state).ts,
                       << >>,
                       <<"deny_temporary_assignment">>)

\* elif chosen_id in cur_player_ids
ChoiceAccepted(chosen_id, cur_player_ids) ==
    TRUE

ChoiceInFrame(chosen_id, cur_player_ids) ==
    chosen_id \in cur_player_ids

\* the answer to the reassignment_selection request
ReassignmentChoice ==
    /\ OutsideSessionUnchanged
    /\ pc = "wait_reassign"
    /\ \E answer \in Responses :
           /\ last_response' = answer
           /\ UNCHANGED <<cur_player_track, possession_player_id>>
           /\ IF answer.kind = "disconnect" THEN Disconnected
              ELSE IF ReassignmentRaises(answer) THEN Abort("human_input")
              ELSE LET chosen_id == wait_for_reassignment(answer, cur_suggestions)
                   IN IF chosen_id = None
                      THEN FinishFrame(tracking_state, tracking_initialized,
                               <<StatusUpdate(frame_num,
                                   "Continuing without player-specific tracking")>>,
                               << >>)
                      ELSE IF ChoiceInFrame(chosen_id, Keys(cur_player_track))
                      THEN FinishFrame(
                               confirm_reassignment(tracking_state, chosen_id,
                                                    cur_player_track),
                               tracking_initialized,
                               <<StatusUpdate(frame_num, "Reassigned to player")>>,
                               <<"confirm_reassignment">>)
                      ELSE FinishFrame(tracking_state, tracking_initialized,
                               <<StatusUpdate(frame_num,
                                   "Invalid reassignment choice")>>,
                               << >>)

\* the variables a step that reads no frame and no answer leaves alone
NoFrameWork ==
    /\ last_response' = NoResponse
    /\ calls' = << >>
    /\ UNCHANGED <<frame_num, frame_count, tracking_initialized, intervals,
                   highlight_possessions, cur_player_track, possession_player_id,
                   cur_suggestions, summary, tracking_state>>

\* download_video_to_temp raises: process_video_session sends an error event
\* and raises, the cleanup runs with temp_video_path = None
DownloadFails ==
    /\ OutsideSessionUnchanged
    /\ pc = "start"
    /\ pc' = "failed"
    /\ raised' = "download"
    /\ sent' = <<StartupMessages[1], send_error(default_frame_num)>>
    /\ \E created \in BOOLEAN : CleanedUp(DownloadFailed(resources, created))
    /\ NoFrameWork

\* the client is gone when process_video_session sends one of its status
\* updates, k of them sent: the send raises, and so does send_error in the
\* except clause; the exception leaves process_video_session after the cleanup
DisconnectBeforeLoop ==
    /\ OutsideSessionUnchanged
    /\ pc = "start"
    /\ pc' = "failed"
    /\ raised' = "disconnect"
    /\ \E k \in 0 .. (Len(StartupMessages) - 1) :
           /\ sent' = SubSeq(StartupMessages, 1, k)
           /\ CleanedUp(IF k = 0 THEN resources ELSE Downloaded(resources))
    /\ NoFrameWork

\* the client is gone when _process_video_frames sends (its first status,
\* a message of a frame, or the final summary): except WebSocketDisconnect
\* returns, the cleanup runs
DisconnectInLoop ==
    /\ OutsideSessionUnchanged
    /\ pc' = "disconnected"
    /\ \/ /\ pc = "start"
          /\ sent' = StartupMessages
          /\ CleanedUp(Downloaded(resources))
       \/ /\ pc = "read"
          /\ sent' = << >>
          /\ CleanedUp(resources)
    /\ UNCHANGED raised
    /\ NoFrameWork

\* faulty variant of WaitHeartbeat: the loop moves on to the next frame
\* while the request is outstanding
HeartbeatSkippingFrame ==
    /\ OutsideSessionUnchanged
    /\ pc \in Waiting
    /\ sent' = <<Heartbeat>>
    /\ frame_num' = frame_num + 1
    /\ last_response' = NoResponse
    /\ calls' = << >>
    /\ UNCHANGED <<pc, cleaned, raised, resources, frame_count,
                   tracking_initialized, intervals, highlight_possessions,
                   cur_player_track, possession_player_id, cur_suggestions,
                   summary, tracking_state>>

\* _send_periodic_heartbeat, while request_user_input waits for the answer
WaitHeartbeat ==
    /\ OutsideSessionUnchanged
    /\ pc \in Waiting
    /\ sent' = <<Heartbeat>>
    /\ UNCHANGED <<pc, cleaned, raised, resources>>
    /\ NoFrameWork

NextSession ==
    \/ StartSession
    \/ DownloadFails
    \/ DisconnectBeforeLoop
    \/ DisconnectInLoop
    \/ ReadFrame
    \/ TrackerFails
    \/ EndOfVideo
    \/ WaitHeartbeat
    \/ InitialSelection
    \/ TempConfirmation
    \/ ReassignmentChoice

SpecSession == Init /\ [][NextSession]_vars

\* the event loop keeps running the coroutine of the session, and a client
\* that stays connected answers the request it was sent
SpecSessionLive == SpecSession /\ WF_vars(NextSession)

----------------------------------------------------------------------------
(* The HTTP and WebSocket endpoints of api/main.py: a step is one request   *)
(* served, one upload by a client, or the end of one call of                *)
(* process_video_session                                                    *)

\* the pipelines one session is given in the model
MaxPipelines == 2

\* SessionStatus
CREATED == "created"
PROCESSING == "processing"
COMPLETED == "completed"
ERROR == "error"

\* active_sessions[session_id][field] = value
WithField(sessions, session_id, field, value) ==
    [sessions EXCEPT ![session_id] = [@ EXCEPT ![field] = value]]

\* dict assignment active_sessions[session_id] = session
WithSession(sessions, session_id, session) ==
    [s \in DOMAIN sessions \cup {session_id} |->
        IF s = session_id THEN session ELSE sessions[s]]

\* POST /upload-url
GetUploadUrl ==
    /\ \E session_id \in ApiSessions \ DOMAIN active_sessions :
           /\ active_sessions' =
                  WithSession(active_sessions, session_id,
                              [s3_key |-> S3Key(session_id), status |-> CREATED])
           /\ api_call' = Call("upload-url", session_id, S3Key(session_id), 200)
    /\ UNCHANGED <<s3_objects, pipelines>>
    /\ UNCHANGED <<engine_vars, detector_vars, session_vars, request_vars>>

\* the client PUTs the video to the pre-signed URL
ClientUploads ==
    /\ \E session_id \in DOMAIN active_sessions :
           /\ active_sessions[session_id].s3_key \notin s3_objects
           /\ s3_objects' = s3_objects \cup {active_sessions[session_id].s3_key}
    /\ UNCHANGED <<active_sessions, pipelines, api_call>>
    /\ UNCHANGED <<engine_vars, detector_vars, session_vars, request_vars>>

\* start_processing: the sessions it leaves and the status code it answers;
\* head_ok is false when head_object raises for a reason other than a
\* missing object
start_processing(sessions, objects, session_id, s3_key, head_ok) ==
    IF session_id \notin DOMAIN sessions
    THEN [sessions |-> sessions, code |-> 404]
    ELSE IF sessions[session_id].s3_key # s3_key
    THEN [sessions |-> sessions, code |-> 400]
    ELSE IF s3_key \notin objects \/ ~head_ok
    THEN [sessions |-> sessions, code |-> 500]
    ELSE [sessions |-> WithField(sessions, session_id, "status", PROCESSING),
          code |-> 200]

\* POST /sessions/{session_id}/start
StartProcessing ==
    /\ \E session_id \in ApiSessions, key_of \in ApiSessions, head_ok \in BOOLEAN :
           LET r == start_processing(active_sessions, s3_objects, session_id,
                                     S3Key(key_of), head_ok)
           IN  /\ active_sessions' = r.sessions
               /\ api_call' = Call("start", session_id, S3Key(key_of), r.code)
    /\ UNCHANGED <<s3_objects, pipelines>>
    /\ UNCHANGED <<engine_vars, detector_vars, session_vars, request_vars>>

\* websocket_endpoint up to the call of process_video_session: the
\* connection is closed with code 1008, or accepted and a pipeline started
WebsocketConnect ==
    /\ \E session_id \in ApiSessions :
           /\ pipelines[session_id].started < MaxPipelines
           /\ IF \/ session_id \notin DOMAIN active_sessions
                 \/ active_sessions[session_id].status # PROCESSING
              THEN /\ api_call' = Call("ws", session_id, NoKey, 1008)
                   /\ UNCHANGED pipelines
              ELSE /\ api_call' = Call("ws", session_id, NoKey, 101)
                   /\ pipelines' =
                          [pipelines EXCEPT ![session_id] =
                              [@ EXCEPT !.running = @ + 1,
                                        !.started = @ + 1]]
    /\ UNCHANGED <<active_sessions, s3_objects>>
    /\ UNCHANGED <<engine_vars, detector_vars, session_vars, request_vars>>

\* how a call of process_video_session ends, as pc of the session model:
\* the completed message sent, a silent return after WebSocketDisconnect in
\* the frame loop, or an exception
PipelineOutcomes == {"completed", "disconnected", "failed"}

\* websocket_endpoint: COMPLETED when process_video_session returns, ERROR
\* when it raises
StatusAfter(outcome) ==
    IF outcome = "failed" THEN ERROR ELSE COMPLETED

\* websocket_endpoint from the end of process_video_session, whose cleanup
\* has removed the S3 object or failed to
PipelineEnds ==
    /\ \E session_id \in DOMAIN active_sessions, outcome \in PipelineOutcomes,
          removed \in BOOLEAN :
           /\ pipelines[session_id].running > 0
           /\ pipelines' = [pipelines EXCEPT ![session_id] =
                                [@ EXCEPT !.running = @ - 1,
                                          !.ended = outcome]]
           /\ active_sessions' =
                  WithField(active_sessions, session_id, "status",
                            StatusAfter(outcome))
           /\ s3_objects' =
                  IF removed
                  THEN s3_objects \ {active_sessions[session_id].s3_key}
                  ELSE s3_objects
    /\ UNCHANGED api_call
    /\ UNCHANGED <<engine_vars, detector_vars, session_vars, request_vars>>

NextApi ==
    \/ GetUploadUrl
    \/ ClientUploads
    \/ StartProcessing
    \/ WebsocketConnect
    \/ PipelineEnds

SpecApi == Init /\ [][NextApi]_vars

----------------------------------------------------------------------------
(* request_user_input and the heartbeat task it creates: a step is what one *)
(* of the two coroutines does between two of its awaits, or an event of the *)
(* event loop (the answer, the timeout, the timer of asyncio.sleep)         *)

\* the request_user_input calls of a session of the model
MaxRequests == 2
\* the heartbeats the timer allows during one wait
MaxHeartbeats == 2

\* how the wait of request_user_input ends: a text that is JSON, a text
\* that is not, asyncio.TimeoutError, WebSocketDisconnect
WaitOutcomes == {"response", "invalid_json", "timeout", "disconnect"}

OutsideRequestUnchanged ==
    UNCHANGED <<engine_vars, detector_vars, session_vars, api_vars>>

\* websocket.send_text(user_input.json()) and asyncio.create_task
RequestUserInput ==
    /\ OutsideRequestUnchanged
    /\ request.pc = "idle"
    /\ request.count < MaxRequests
    /\ request' = [pc |-> "waiting", outcome |-> "none",
                   count |-> request.count + 1]
    /\ heartbeat_task' = [pc |-> "sleeping", cancelled |-> FALSE,
                          failed |-> FALSE, sent |-> 0]

\* websocket.send_text(user_input.json()) raises: no task is created
RequestSendFails ==
    /\ OutsideRequestUnchanged
    /\ request.pc = "idle"
    /\ request.count < MaxRequests
    /\ request' = [pc |-> "raised", outcome |-> "disconnect",
                   count |-> request.count + 1]
    /\ UNCHANGED heartbeat_task

\* asyncio.sleep(HEARTBEAT_INTERVAL) returns and send_heartbeat starts
HeartbeatDue ==
    /\ OutsideRequestUnchanged
    /\ heartbeat_task.pc = "sleeping"
    /\ ~heartbeat_task.cancelled
    /\ heartbeat_task.sent < MaxHeartbeats
    /\ heartbeat_task' = [heartbeat_task EXCEPT !.pc = "sending"]
    /\ UNCHANGED request

\* send_heartbeat returns: back to the top of the loop
HeartbeatSent ==
    /\ OutsideRequestUnchanged
    /\ heartbeat_task.pc = "sending"
    /\ ~heartbeat_task.cancelled
    /\ heartbeat_task' = [heartbeat_task EXCEPT !.pc = "sleeping",
                                                !.sent = @ + 1]
    /\ UNCHANGED request

\* send_heartbeat raises: except Exception: print, break
HeartbeatFails ==
    /\ OutsideRequestUnchanged
    /\ heartbeat_task.pc = "sending"
    /\ ~heartbeat_task.cancelled
    /\ heartbeat_task' = [heartbeat_task EXCEPT !.pc = "done",
                                                !.failed = TRUE]
    /\ UNCHANGED request

\* CancelledError is thrown into the task at its await:
\* except asyncio.CancelledError: break
HeartbeatCancelled ==
    /\ OutsideRequestUnchanged
    /\ heartbeat_task.pc \in {"sleeping", "sending"}
    /\ heartbeat_task.cancelled
    /\ heartbeat_task' = [heartbeat_task EXCEPT !.pc = "done"]
    /\ UNCHANGED request

\* asyncio.wait_for(websocket.receive_text(), ...) is done: the coroutine
\* of request_user_input is ready to run again
AnswerArrives ==
    /\ OutsideRequestUnchanged
    /\ request.pc = "waiting"
    /\ \E outcome \in WaitOutcomes :
           request' = [request EXCEPT !.pc = "resuming", !.outcome = outcome]
    /\ UNCHANGED heartbeat_task

\* faulty variant of CancelHeartbeat: request_user_input returns or raises
\* without its finally clause
LeaveHeartbeatRunning ==
    /\ OutsideRequestUnchanged
    /\ request.pc = "resuming"
    /\ request' = [request EXCEPT
                      !.pc = IF request.outcome = "response"
                             THEN "returned" ELSE "raised"]
    /\ UNCHANGED heartbeat_task

\* json.loads and the finally clause up to its await: heartbeat_task.cancel()
\* marks a task that has not ended
CancelHeartbeat ==
    /\ OutsideRequestUnchanged
    /\ request.pc = "resuming"
    /\ request' = [request EXCEPT !.pc = "finally"]
    /\ heartbeat_task' = [heartbeat_task EXCEPT
                             !.cancelled = (heartbeat_task.pc # "done")]

\* await heartbeat_task is over: request_user_input returns response_data or
\* raises what ended the wait
ReturnOrRaise ==
    /\ OutsideRequestUnchanged
    /\ request.pc = "finally"
    /\ heartbeat_task.pc = "done"
    /\ request' = [request EXCEPT
                      !.pc = IF request.outcome = "response"
                             THEN "returned" ELSE "raised"]
    /\ UNCHANGED heartbeat_task

\* the frame loop goes on after the answer, up to its next request
ResumeProcessing ==
    /\ OutsideRequestUnchanged
    /\ request.pc = "returned"
    /\ request' = [request EXCEPT !.pc = "idle"]
    /\ UNCHANGED heartbeat_task

NextRequest ==
    \/ RequestUserInput
    \/ RequestSendFails
    \/ HeartbeatDue
    \/ HeartbeatSent
    \/ HeartbeatFails
    \/ HeartbeatCancelled
    \/ AnswerArrives
    \/ CancelHeartbeat
    \/ ReturnOrRaise
    \/ ResumeProcessing

SpecRequest == Init /\ [][NextRequest]_vars

----------------------------------------------------------------------------
(* Vocabulary of the properties.  In an action formula the unprimed        *)
(* tracking_state is the state the call started from; op', arg_id',        *)
(* arg_track' and ret' describe the call, tracking_state' its result.      *)

Initialized == tracking_state # NoState
UpdateCall == op' = "update_tracking" /\ Initialized
\* the ids observed in the frame handed to the call
ObservedIn(player_id) == InTrack(player_id, arg_track')
\* the call took neither the snap-back branch nor the current-visible branch
CurrentAbsentCall ==
    /\ UpdateCall
    /\ ~ObservedIn(tracking_state.current_id)
    /\ ~ObservedIn(tracking_state.original_id)

\* confidence of the i-th observed player, as find_best_reassignment_candidate
\* scores it from the state ts
Score(ts, player_track, i) ==
    LET p == predict_next_position(ts)
    IN calculate_player_confidence(p.ts, player_track[i].id,
                                   player_track[i].data, p.pos)
\* the observed players whose confidence is strictly above the threshold
Clearing(ts, player_track) ==
    {i \in 1 .. Len(player_track) :
         Score(ts, player_track, i) > confidence_threshold}

----------------------------------------------------------------------------
(* C1 *)

\* C1 (snap-back priority): on every update_tracking call on an initialized
\* tracker whose observations contain original_id, current_id is original_id
\* after the call and the returned tracked id is original_id, whatever
\* current_id was before.
SnapBackPriority ==
    [][(UpdateCall /\ ObservedIn(tracking_state.original_id)) =>
          /\ tracking_state'.current_id = tracking_state.original_id
          /\ tracking_state'.original_id = tracking_state.original_id
          /\ ret'.tracked_id = tracking_state.original_id]_vars

\* a call snapped back from a substitute to the original
SnapBackHappened ==
    /\ op = "update_tracking"
    /\ Initialized
    /\ ret.status = "original_returned"
    /\ tracking_state.current_id = tracking_state.original_id
    /\ Len(arg_track) >= 2

----------------------------------------------------------------------------
(* C2 *)

\* C2 as stated (untracked persistence): once update_tracking has reported no
\* target past max_lost_frames, every later update_tracking call reports no
\* target until confirm_reassignment or initialize_tracking is called.  (The
\* first later call to return a tracked id is a step from a since_lost state.)
UntrackedPersistence ==
    [][(since_lost /\ op' = "update_tracking") =>
          ret'.tracked_id = None]_vars

\* C2 as amended: ... every later update_tracking call whose observations
\* contain neither current_id nor original_id reports no target and asks for
\* user input, as long as no update_tracking call has returned a tracked id in
\* between, until confirm_reassignment or initialize_tracking is called.
UntrackedWhileUnseen ==
    [][(since_lost /\ CurrentAbsentCall) =>
          /\ ret'.tracked_id = None
          /\ ret'.needs_user_input
          /\ tracking_state'.current_id = tracking_state.current_id]_vars

\* a second "no target" report in a row, on a frame that shows other players
\* with enough history to score them
StillUntracked ==
    /\ op = "update_tracking"
    /\ Initialized
    /\ since_lost
    /\ ret.tracked_id = None
    /\ tracking_state.lost_frames > max_lost_frames + 1
    /\ Len(arg_track) >= 1
    /\ Len(tracking_state.position_history) >= 2

----------------------------------------------------------------------------
(* C3 *)

\* C3 as stated (loss counting): on every update_tracking call in which
\* current_id is absent from the observations lost_frames grows by exactly 1,
\* on every call in which it is present lost_frames is 0 afterwards, and
\* lost_frames is never negative.
LossCounting ==
    [][UpdateCall =>
          /\ ~ObservedIn(tracking_state.current_id) =>
                 tracking_state'.lost_frames = tracking_state.lost_frames + 1
          /\ ObservedIn(tracking_state.current_id) =>
                 tracking_state'.lost_frames = 0
          /\ tracking_state'.lost_frames >= 0]_vars

\* C3 as amended: on every update_tracking call in which current_id is absent
\* and that neither snaps back to original_id nor reassigns automatically (it
\* returns no tracked id) lost_frames grows by exactly 1; on every call in
\* which current_id is present, or that snaps back or reassigns, lost_frames
\* is 0 afterwards; lost_frames is never negative.
LossCountingUnlessReassigned ==
    [][UpdateCall =>
          /\ (~ObservedIn(tracking_state.current_id) /\ ret'.tracked_id = None) =>
                 tracking_state'.lost_frames = tracking_state.lost_frames + 1
          /\ (ObservedIn(tracking_state.current_id) \/ ret'.tracked_id # None) =>
                 tracking_state'.lost_frames = 0
          /\ tracking_state'.lost_frames >= 0]_vars

\* the substitute of a temporary assignment has been absent for two frames
\* while the original has been away longer
LostFramesCounted ==
    /\ op = "update_tracking"
    /\ Initialized
    /\ ret.tracked_id = None
    /\ tracking_state.is_temporary_assignment
    /\ tracking_state.lost_frames = 2
    /\ tracking_state.original_lost_frames > 2

----------------------------------------------------------------------------
(* C4 *)

\* C4 as stated (permanence confirmation threshold): under temporary
\* assignment update_tracking returns needs_user_input = True on the first call
\* after which original_lost_frames > max_lost_frames and on no call after
\* which original_lost_frames <= max_lost_frames; signalling changes neither
\* original_id nor is_temporary_assignment.
PermanenceThreshold ==
    [][(UpdateCall /\ tracking_state.is_temporary_assignment) =>
          /\ (/\ tracking_state.original_lost_frames <= max_lost_frames
              /\ tracking_state'.original_lost_frames > max_lost_frames) =>
                 ret'.needs_user_input
          /\ tracking_state'.original_lost_frames <= max_lost_frames =>
                 ~ret'.needs_user_input
          /\ ret'.needs_user_input =>
                 /\ tracking_state'.original_id = tracking_state.original_id
                 /\ tracking_state'.is_temporary_assignment]_vars

\* C4 as amended: under temporary assignment, an update_tracking call in which
\* the substitute current_id is observed and original_id is not returns
\* needs_user_input = True, requesting permanence confirmation, exactly when
\* original_lost_frames > max_lost_frames after the call; no update_tracking
\* call returns it while original_lost_frames <= max_lost_frames; signalling
\* changes neither original_id nor is_temporary_assignment.
PermanenceThresholdWhileVisible ==
    [][(UpdateCall /\ tracking_state.is_temporary_assignment) =>
          /\ (/\ ObservedIn(tracking_state.current_id)
              /\ ~ObservedIn(tracking_state.original_id)) =>
                 /\ ret'.needs_user_input =
                        (tracking_state'.original_lost_frames > max_lost_frames)
                 /\ ret'.needs_user_input => ret'.status = "confirm_temporary"
          /\ tracking_state'.original_lost_frames <= max_lost_frames =>
                 ~ret'.needs_user_input
          /\ ret'.needs_user_input =>
                 /\ tracking_state'.original_id = tracking_state.original_id
                 /\ tracking_state'.is_temporary_assignment]_vars

\* permanence confirmation requested on the call that crossed the threshold
PermanenceRequested ==
    /\ op = "update_tracking"
    /\ Initialized
    /\ ret.status = "confirm_temporary"
    /\ ret.needs_user_input
    /\ tracking_state.original_lost_frames = max_lost_frames + 1

----------------------------------------------------------------------------
(* C5 *)

\* C5 as stated: when current_id is absent from the observations,
\* update_tracking returns needs_user_input = True whenever no observed
\* candidate clears confidence_threshold or lost_frames > max_lost_frames.
LostRequestsInput ==
    [][(CurrentAbsentCall /\
        (\/ Clearing(tracking_state, arg_track') = {}
         \/ tracking_state'.lost_frames > max_lost_frames)) =>
          ret'.needs_user_input]_vars

\* C5 as amended: when current_id is absent from the observations and the call
\* does not snap back to original_id, update_tracking returns
\* needs_user_input = True exactly when lost_frames, after its increment,
\* exceeds max_lost_frames; while lost_frames <= max_lost_frames a call that
\* finds no candidate returns no target and needs_user_input = False.
LostRequestsInputPastLimit ==
    [][CurrentAbsentCall =>
          /\ ret'.needs_user_input =
                 (tracking_state.lost_frames + 1 > max_lost_frames)
          /\ ret'.needs_user_input => ret'.tracked_id = None]_vars

\* the target is lost within the limit, players are observed, none is taken,
\* and no user input is requested
LostWithinLimit ==
    /\ op = "update_tracking"
    /\ Initialized
    /\ ret.status = "player_lost"
    /\ ~ret.needs_user_input
    /\ Len(arg_track) >= 1
    /\ tracking_state.lost_frames <= max_lost_frames

----------------------------------------------------------------------------
(* C6 *)

\* C6 (automatic reassignment): when current_id is absent (and the call does
\* not snap back), lost_frames after its increment is <= max_lost_frames and
\* at least one observed player scores strictly above confidence_threshold,
\* update_tracking sets current_id to an observed player of maximal
\* confidence, sets is_temporary_assignment = (candidate != original_id),
\* zeroes lost_frames and returns that id with needs_user_input = False, for
\* every player id, 0 included.
AutomaticReassignment ==
    [][(/\ CurrentAbsentCall
        /\ tracking_state.lost_frames + 1 <= max_lost_frames
        /\ Clearing(tracking_state, arg_track') # {}) =>
          \E i \in Clearing(tracking_state, arg_track') :
              /\ \A j \in 1 .. Len(arg_track') :
                     Score(tracking_state, arg_track', j)
                         <= Score(tracking_state, arg_track', i)
              /\ tracking_state'.current_id = arg_track'[i].id
              /\ tracking_state'.is_temporary_assignment =
                     (arg_track'[i].id # tracking_state.original_id)
              /\ tracking_state'.lost_frames = 0
              /\ ret'.tracked_id = arg_track'[i].id
              /\ ~ret'.needs_user_input]_vars

----------------------------------------------------------------------------
(* C7 *)

\* C7 (denial forces manual reselection): deny_temporary_assignment sets
\* current_id = original_id, clears is_temporary_assignment and sets both lost
\* counters to max_lost_frames + 1; the update_tracking call that follows it,
\* if original_id is not observed, reassigns nothing and returns
\* (None, needs_user_input = True).
DenialForcesReselection ==
    [][/\ (op' = "deny_temporary_assignment" /\ Initialized) =>
              /\ ret' = TRUE
              /\ tracking_state'.current_id = tracking_state.original_id
              /\ tracking_state'.original_id = tracking_state.original_id
              /\ ~tracking_state'.is_temporary_assignment
              /\ tracking_state'.lost_frames = max_lost_frames + 1
              /\ tracking_state'.original_lost_frames = max_lost_frames + 1
       /\ (/\ op = "deny_temporary_assignment"
           /\ UpdateCall
           /\ ~ObservedIn(tracking_state.original_id)) =>
              /\ ret'.tracked_id = None
              /\ ret'.needs_user_input
              /\ tracking_state'.current_id = tracking_state.current_id
              /\ ~tracking_state'.is_temporary_assignment]_vars

\* the update_tracking call right after a denial saw other players, had the
\* history to score them, and still reported no target
ReselectionForced ==
    /\ op = "update_tracking"
    /\ Initialized
    /\ after_deny
    /\ ret.tracked_id = None
    /\ ret.needs_user_input
    /\ Len(arg_track) >= 1
    /\ Len(tracking_state.position_history) >= 2
    /\ tracking_state.lost_frames = max_lost_frames + 2

----------------------------------------------------------------------------
(* C8 *)

\* C8 (confirm_temporary_as_permanent): under temporary assignment it returns
\* True, sets original_id to current_id, adds that id to id_history, clears
\* is_temporary_assignment and zeroes original_lost_frames; otherwise (also
\* when uninitialized) it returns False and changes no field.
ConfirmPermanentContract ==
    [][op' = "confirm_temporary_as_permanent" =>
          IF Initialized /\ tracking_state.is_temporary_assignment
          THEN /\ ret' = TRUE
               /\ tracking_state'.original_id = tracking_state.current_id
               /\ tracking_state'.current_id = tracking_state.current_id
               /\ tracking_state'.id_history =
                      tracking_state.id_history \cup {tracking_state.current_id}
               /\ ~tracking_state'.is_temporary_assignment
               /\ tracking_state'.original_lost_frames = 0
          ELSE /\ ret' = FALSE
               /\ tracking_state' = tracking_state]_vars

\* a substitute was promoted: id_history holds two ids
SubstitutePromoted ==
    /\ op = "confirm_temporary_as_permanent"
    /\ Initialized
    /\ ret = TRUE
    /\ Cardinality(tracking_state.id_history) >= 2
    /\ tracking_state.original_id = tracking_state.current_id

----------------------------------------------------------------------------
(* C9 *)

\* C9 (confirm_reassignment(p, obs)): if p is a key of obs it sets
\* current_id = p, is_temporary_assignment = (p != original_id),
\* confidence = 1.0 and both lost counters to 0; if p is not a key of obs, or
\* tracking is uninitialized, it changes no field.
ConfirmReassignmentContract ==
    [][op' = "confirm_reassignment" =>
          IF Initialized /\ InTrack(arg_id', arg_track')
          THEN /\ tracking_state'.current_id = arg_id'
               /\ tracking_state'.is_temporary_assignment =
                      (arg_id' # tracking_state.original_id)
               /\ tracking_state'.confidence = One
               /\ tracking_state'.lost_frames = 0
               /\ tracking_state'.original_lost_frames = 0
               /\ tracking_state'.original_id = tracking_state.original_id
          ELSE tracking_state' = tracking_state]_vars

\* the user picked an observed player other than the original
ReassignmentConfirmed ==
    /\ op = "confirm_reassignment"
    /\ Initialized
    /\ InTrack(arg_id, arg_track)
    /\ tracking_state.current_id = arg_id
    /\ tracking_state.is_temporary_assignment

----------------------------------------------------------------------------
(* C10 *)

\* C10 (id_history completeness): every id the user confirms as the target,
\* by initialize_tracking, by confirm_reassignment or by
\* confirm_temporary_as_permanent, is in id_history after that call, and
\* id_history loses no id for the rest of the session (until the next
\* initialize_tracking).
IdHistoryCompleteness ==
    [][/\ op' = "initialize_tracking" =>
              arg_id' \in tracking_state'.id_history
       /\ (/\ op' = "confirm_reassignment"
           /\ Initialized
           /\ InTrack(arg_id', arg_track')) =>
              arg_id' \in tracking_state'.id_history
       /\ (op' = "confirm_temporary_as_permanent" /\ ret' = TRUE) =>
              tracking_state.current_id \in tracking_state'.id_history
       /\ (Initialized /\ op' # "initialize_tracking") =>
              tracking_state.id_history \subseteq tracking_state'.id_history]_vars

----------------------------------------------------------------------------
(* Vocabulary of the detector's properties.  In an action formula the      *)
(* unprimed acquisitions_history is the history the call started from and  *)
(* det_player_track', det_ball_track', det_best' and det_ret' describe the *)
(* call.                                                                   *)

\* a step of process_frame
FrameProcessed == Len(acquisitions_history') = Len(acquisitions_history) + 1

\* the result of the previous call, -1 before the first call
PreviousResult ==
    IF acquisitions_history = << >>
    THEN -1
    ELSE acquisitions_history[Len(acquisitions_history)]

\* the frame of the last call, read as the selection policy reads it
SceneBall == BallInfo(det_ball_track)[1]
BoxOf(i) == det_player_track[i].data.bbox
Boxed == {i \in 1 .. Len(det_player_track) : BoxOf(i) # << >>}
Ratio(i) == calculate_ball_containment_ratio(BoxOf(i), SceneBall.bbox)
Distance(i) == find_minimum_distance_to_ball(SceneBall.bbox_center, BoxOf(i))
Contained == {i \in Boxed : 10 * Ratio(i).num > 7 * Ratio(i).den}

----------------------------------------------------------------------------
\* C11  Possession hysteresis: on every frame on which the result of
\* process_frame changes to a player P, P was the per-frame best candidate
\* on that frame and on each of the min_frames - 1 frames right before it;
\* during the first min_frames - 1 frames of a run of P as best candidate
\* the result stays the previous one.
PossessionHysteresis ==
    [][FrameProcessed =>
          /\ det_ret' # PreviousResult =>
                 /\ best_run'.player = det_ret'
                 /\ best_run'.len >= min_frames
          /\ (best_run'.len >= 1 /\ best_run'.len <= min_frames - 1) =>
                 det_ret' = PreviousResult]_vars

----------------------------------------------------------------------------
----------------------------------------------------------------------------
\* C13  Ball dropout: a call of process_frame with no ball observation or
\* with an empty ball bbox returns the result of the previous call (-1 on
\* the first call), whatever the players are, and appends that value to the
\* history.
BallDropoutDefault ==
    [][(FrameProcessed /\ BallMissing(det_ball_track')) =>
          /\ det_ret' = PreviousResult
          /\ acquisitions_history' = Append(acquisitions_history, PreviousResult)]_vars

\* a dropout frame after possession was confirmed carries the player on
DropoutCarried ==
    /\ acquisitions_history # << >>
    /\ det_best = NotComputed
    /\ det_player_track # << >>
    /\ det_ret # -1
    /\ acquisitions_history[Len(acquisitions_history)] = det_ret

----------------------------------------------------------------------------
(* Vocabulary of the session's properties.  In an action formula the       *)
(* unprimed variables are the session before the step; frame_num is the    *)
(* number of the frame being processed, last_response' the answer the step *)
(* consumed, sent' and calls' what the step sent and called.               *)

\* the step ends the processing of a frame
FrameDone == frame_num' = frame_num + 1
\* the step consumes an answer of the client
Answered == pc \in Waiting /\ last_response' # NoResponse
\* counts.get(player_id, 0)
CountIn(counts, player_id) ==
    IF \E k \in 1 .. Len(counts) : counts[k][1] = player_id
    THEN (CHOOSE c \in {counts[k] : k \in 1 .. Len(counts)} :
              c[1] = player_id)[2]
    ELSE 0
Range(seq) == {seq[k] : k \in 1 .. Len(seq)}
SentTypes == {sent'[i].type : i \in 1 .. Len(sent')}
\* id_history of the engine at the end of the session
FinalIdHistory ==
    IF tracking_state = NoState THEN {} ELSE tracking_state.id_history

----------------------------------------------------------------------------
\* C14  Tally increment rule: on each frame the count of the possession
\* result p in the head interval grows by exactly 1 if p # -1 and the frame
\* number lies within the head interval, and no other count changes;
\* otherwise every tally is left unchanged.  The head interval is the head
\* of the pending queue when the frame is processed.
TallyIncrementRule ==
    [][FrameDone =>
          IF /\ intervals # << >>
             /\ possession_player_id' # -1
             /\ intervals[1][1] <= frame_num
             /\ frame_num <= intervals[1][2]
          THEN /\ Len(highlight_possessions') = Len(highlight_possessions)
               /\ \A k \in 1 .. Len(highlight_possessions) :
                      /\ highlight_possessions'[k].interval =
                             highlight_possessions[k].interval
                      /\ \A q \in SessionIds :
                             CountIn(highlight_possessions'[k].counts, q) =
                                 CountIn(highlight_possessions[k].counts, q)
                                 + (IF /\ q = possession_player_id'
                                       /\ highlight_possessions[k].interval
                                              = intervals[1]
                                    THEN 1 ELSE 0)
          ELSE highlight_possessions' = highlight_possessions]_vars

----------------------------------------------------------------------------
\* C15  FIFO interval consumption: an interval leaves the pending queue
\* only on a frame whose number exceeds the interval's own end_frame.
FifoIntervalConsumption ==
    [][\A k \in 1 .. Len(intervals) :
           intervals[k] \notin Range(intervals') =>
               frame_num > intervals[k][2]]_vars

----------------------------------------------------------------------------
\* C16  Highlight winner: in the final summary the winner of an interval is
\* null exactly when nothing was tallied for it; otherwise the winner is a
\* tallied player, winner.frames is that player's count and no player of
\* the interval has a larger count; tracked_player_won holds exactly when
\* the winner is in the engine's final id_history.
HighlightWinner ==
    pc = "completed" =>
        /\ Len(summary.highlights) = Len(highlight_possessions)
        /\ \A k \in 1 .. Len(summary.highlights) :
               LET h == summary.highlights[k]
                   counts == highlight_possessions[k].counts
               IN /\ h.interval = highlight_possessions[k].interval
                  /\ (h.winner = NoWinner) <=> (counts = << >>)
                  /\ counts # << >> =>
                         /\ <<h.winner.player_id, h.winner.frames>>
                                \in Range(counts)
                         /\ \A c \in Range(counts) : c[2] <= h.winner.frames
                  /\ h.tracked_player_won <=>
                         /\ counts # << >>
                         /\ h.winner.player_id \in FinalIdHistory

\* the tracked player wins an interval in which another player was tallied
\* with fewer frames
TrackedPlayerWon ==
    /\ pc = "completed"
    /\ \E k \in 1 .. Len(summary.highlights) :
           /\ summary.highlights[k].tracked_player_won
           /\ \E c \in Range(highlight_possessions[k].counts) :
                  c[2] < summary.highlights[k].winner.frames

----------------------------------------------------------------------------
\* C17  Human-input timeout: a request that receives no answer within the
\* timeout is treated as "no selection": no error event is sent, the
\* session is not aborted and goes on with the following frames.
TimeoutIsNoSelection ==
    [][(Answered /\ last_response'.kind = "timeout") =>
          /\ "error" \notin SentTypes
          /\ pc' \in {"read"} \cup Waiting]_vars

----------------------------------------------------------------------------
\* C18  Malformed human response: an answer that is not valid JSON, or
\* whose player_id or suggestion_index is not an integer, is rejected as a
\* no-op: the TrackingState is unchanged, a status is sent, and the loop
\* goes on without the session terminating.
MalformedAnswer ==
    \/ last_response'.kind = "invalid_json"
    \/ /\ last_response'.kind = "player_id_text"
       /\ pc \in {"wait_initial", "wait_reassign"}
    \/ /\ last_response'.kind = "suggestion_index_text"
       /\ pc = "wait_reassign"

MalformedResponseRejected ==
    [][(Answered /\ MalformedAnswer) =>
          /\ tracking_state' = tracking_state
          /\ "status" \in SentTypes
          /\ "error" \notin SentTypes
          /\ pc' \in {"read"} \cup Waiting]_vars

----------------------------------------------------------------------------
\* C19  Absent-id selection: an initial pick or a reassignment pick of a
\* player id that is not in the frame's observations reaches neither
\* initialize_tracking nor confirm_reassignment, leaves the TrackingState
\* unchanged, sends a status, and the loop goes on to the next frame;
\* tracking is only initialized with an id present in the frame on which
\* it was picked.
AbsentIdPicked ==
    /\ pc \in {"wait_initial", "wait_reassign"}
    /\ last_response'.kind = "player_id"
    /\ last_response'.value \notin Keys(cur_player_track)

AbsentIdSelectionRejected ==
    [][/\ AbsentIdPicked =>
              /\ "initialize_tracking" \notin Range(calls')
              /\ "confirm_reassignment" \notin Range(calls')
              /\ tracking_state' = tracking_state
              /\ "status" \in SentTypes
              /\ pc' = "read"
              /\ FrameDone
       /\ "initialize_tracking" \in Range(calls') =>
              /\ tracking_state'.original_id \in Keys(cur_player_track)
              /\ tracking_state'.original_id = last_response'.value]_vars

\* a reassignment pick of an id the frame does not show was refused
AbsentIdRefused ==
    /\ pc = "read"
    /\ last_response.kind = "player_id"
    /\ last_response.value \notin Keys(cur_player_track)
    /\ tracking_initialized
    /\ calls = << >>
    /\ \E i \in 1 .. Len(sent) :
           sent[i] = StatusUpdate(frame_num - 1, "Invalid reassignment choice")

----------------------------------------------------------------------------
\* C20  Upstream tracker failure: if a tracker call raises while frame N is
\* processed, the session processes no further frame, sends an error event
\* whose frame_num is N, sends no completed summary, and runs the cleanup.
TrackerFailureReported ==
    [][(raised = "none" /\ raised' = "tracker") =>
          /\ pc' = "failed"
          /\ frame_num' = frame_num
          /\ \E i \in 1 .. Len(sent') :
                 sent'[i].type = "error" /\ sent'[i].frame_num = frame_num
          /\ "completed" \notin SentTypes
          /\ cleaned']_vars

----------------------------------------------------------------------------
\* C25  Idempotence of denial: on an initialized tracker, a call of
\* deny_temporary_assignment that directly follows another one leaves the
\* TrackingState exactly as the first call left it, both lost counters at
\* max_lost_frames + 1.
DenialIdempotent ==
    [][(/\ op = "deny_temporary_assignment"
        /\ op' = "deny_temporary_assignment"
        /\ Initialized) =>
          /\ tracking_state' = tracking_state
          /\ ret' = TRUE
          /\ tracking_state'.lost_frames = max_lost_frames + 1
          /\ tracking_state'.original_lost_frames = max_lost_frames + 1]_vars

\* a substitute was denied twice in a row
DeniedTwice ==
    /\ op = "deny_temporary_assignment"
    /\ after_deny
    /\ Initialized
    /\ ret = TRUE
    /\ ~tracking_state.is_temporary_assignment
    /\ tracking_state.current_id = tracking_state.original_id
    /\ tracking_state.lost_frames = max_lost_frames + 1

----------------------------------------------------------------------------
\* C24  Confidence bound: calculate_player_confidence returns a value in
\* [0, 1], and at most 0.6 when there is no velocity estimate or the
\* position history holds fewer than 2 points.
ConfidenceBound ==
    [][op' = "calculate_player_confidence" =>
          /\ 0 <= ret'
          /\ ret' <= One
          /\ (\/ tracking_state = NoState
              \/ tracking_state.velocity_estimate = NoPos
              \/ Len(tracking_state.position_history) < 2) =>
                 10 * ret' <= 6 * One]_vars

\* without a velocity estimate a candidate at the reference position scores
\* exactly 0.6
SpatialWeightAlone ==
    /\ op = "calculate_player_confidence"
    /\ tracking_state # NoState
    /\ tracking_state.velocity_estimate = NoPos
    /\ 10 * ret = 6 * One

----------------------------------------------------------------------------
\* C30  Position prediction: from n >= 2 positions p_1 .. p_n (oldest first)
\* predict_next_position returns p_n plus the average of the most recent
\* min(4, n - 1) displacements (their sum is p_n - p_(n-k)) and stores that
\* average as velocity_estimate; from fewer than 2 positions it returns
\* last_known_position and leaves velocity_estimate unchanged.
PredictionFromRecentMoves ==
    [][op' = "predict_next_position" =>
          LET positions == tracking_state.position_history
              n == Len(positions)
              k == Min(4, n - 1)
              recent(c) == ((positions[n][c] - positions[n - k][c]) * Sub) \div k
          IN IF n >= 2
             THEN /\ tracking_state'.velocity_estimate = <<recent(1), recent(2)>>
                  /\ ret' = <<positions[n][1] * Sub + recent(1),
                              positions[n][2] * Sub + recent(2)>>
             ELSE /\ ret' = <<tracking_state.last_known_position[1] * Sub,
                              tracking_state.last_known_position[2] * Sub>>
                  /\ tracking_state' = tracking_state]_vars

----------------------------------------------------------------------------
\* the session has ended
Terminated == pc \in {"completed", "failed", "disconnected"}
\* the step in which the session finds the client gone
ClientLost ==
    \/ pc' = "disconnected" /\ pc # "disconnected"
    \/ raised' = "disconnect" /\ raised = "none"

\* C21  Cancellation discards results: when the client disconnects at a
\* send or at a human-input wait before the last frame has been processed,
\* no completed message is sent, no summary is kept, and no exception
\* leaves process_video_session.
CancellationDiscardsResults ==
    [][ClientLost =>
          /\ "completed" \notin SentTypes
          /\ summary' = NoSummary
          /\ raised' = "none"]_vars

----------------------------------------------------------------------------
\* C22  Cleanup on every path: however process_video_session ends, the
\* cleanup has run, the removal of the S3 object was attempted, and the
\* removal of the local temporary video file was attempted if such a file
\* was created.
CleanupOnEveryPath ==
    Terminated =>
        /\ cleaned
        /\ "s3_object" \in resources.attempted
        /\ resources.temp_file # "none" => "temp_file" \in resources.attempted

----------------------------------------------------------------------------
\* C27  Frame sequencing under human input: while a request raised on frame
\* N is outstanding the frame number stays N, no tracker result or
\* possession result is replaced, update_tracking is not called again and
\* nothing is tallied until the step that completes frame N; the frame
\* number only ever grows by one, to a point where no request is
\* outstanding; a heartbeat sent during the wait changes nothing but the
\* record of the messages sent.
FrameSequencing ==
    [][/\ pc \in Waiting =>
              /\ cur_player_track' = cur_player_track
              /\ possession_player_id' = possession_player_id
              /\ frame_num' # frame_num => FrameDone
              /\ highlight_possessions' # highlight_possessions => FrameDone
              /\ intervals' # intervals => FrameDone
              /\ pc \in {"wait_confirm", "wait_reassign"} =>
                     "update_tracking" \notin Range(calls')
       /\ frame_num' # frame_num => (FrameDone /\ pc' = "read")
       /\ (\/ cur_player_track' # cur_player_track
           \/ possession_player_id' # possession_player_id) => pc = "read"
       /\ (pc \in Waiting /\ "heartbeat" \in SentTypes) =>
              UNCHANGED <<pc, frame_num, frame_count, tracking_initialized,
                          intervals, highlight_possessions, cur_player_track,
                          possession_player_id, cur_suggestions, summary,
                          tracking_state>>]_vars

\* a heartbeat was sent while a reassignment request of a later frame was
\* outstanding
HeartbeatDuringWait ==
    /\ pc = "wait_reassign"
    /\ sent = <<Heartbeat>>
    /\ frame_num >= 1
    /\ tracking_initialized

----------------------------------------------------------------------------
\* C28  Accumulator fed on every frame: every frame whose possession result
\* is not -1 and whose number lies inside the head interval adds one to
\* that player's count in the head interval, whatever the tracking state
\* is (also before tracking is initialized).
AccumulatorFedOnEveryFrame ==
    [][(/\ FrameDone
        /\ intervals # << >>
        /\ possession_player_id' # -1
        /\ intervals[1][1] <= frame_num
        /\ frame_num <= intervals[1][2]) =>
          \E k \in 1 .. Len(highlight_possessions) :
              /\ highlight_possessions[k].interval = intervals[1]
              /\ CountIn(highlight_possessions'[k].counts,
                         possession_player_id') =
                     CountIn(highlight_possessions[k].counts,
                             possession_player_id') + 1]_vars

----------------------------------------------------------------------------
\* C29  Single applicable human-protocol branch: the request that follows
\* update_tracking is a confirmation request when the engine is under
\* temporary assignment and a reassignment_selection request otherwise;
\* when the user confirms the substitute as permanent, no
\* reassignment_selection request is issued on that frame.
SingleProtocolBranch ==
    [][/\ ("update_tracking" \in Range(calls') /\ pc' \in Waiting) =>
              /\ pc' = (IF tracking_state'.is_temporary_assignment
                        THEN "wait_confirm" ELSE "wait_reassign")
              /\ sent'[Len(sent')] =
                     (IF tracking_state'.is_temporary_assignment
                      THEN UserInput("confirmation", frame_num)
                      ELSE UserInput("reassignment_selection", frame_num))
       /\ (pc = "wait_confirm" /\ last_response' = Response("confirmed", 1)) =>
              /\ pc' # "wait_reassign"
              /\ \A i \in 1 .. Len(sent') :
                     sent'[i] # UserInput("reassignment_selection", frame_num)]_vars

----------------------------------------------------------------------------
\* the request served by the step: POST /sessions/{session_id}/start with
\* the session's own key, for a session from /upload-url that has not been
\* started and whose video was never uploaded
StartWithoutUploadOf(session_id) ==
    /\ session_id \in DOMAIN active_sessions
    /\ active_sessions[session_id].status = CREATED
    /\ S3Key(session_id) \notin s3_objects
    /\ api_call' # api_call
    /\ api_call'.endpoint = "start"
    /\ api_call'.session_id = session_id
    /\ api_call'.s3_key = S3Key(session_id)

\* C26  Start without upload: a start request for a session from
\* /upload-url whose video was never uploaded is answered with status 404
\* and leaves the session out of the processing state, and a WebSocket
\* connection to a session that is not in the processing state starts no
\* pipeline.
StartWithoutUpload ==
    [][\A session_id \in ApiSessions :
          /\ StartWithoutUploadOf(session_id) =>
                 /\ api_call'.code = 404
                 /\ active_sessions'[session_id].status # PROCESSING
          /\ (/\ session_id \in DOMAIN active_sessions
              /\ active_sessions[session_id].status # PROCESSING) =>
                 pipelines'[session_id] = pipelines[session_id]]_vars

\* the part of C26 the code keeps: such a start request is refused and the
\* session stays out of the processing state
StartWithoutUploadRefused ==
    [][\A session_id \in ApiSessions :
          StartWithoutUploadOf(session_id) =>
              /\ api_call'.code \notin {200}
              /\ active_sessions'[session_id].status = CREATED
              /\ pipelines' = pipelines]_vars

----------------------------------------------------------------------------
\* the session has ended for a reason the claim excludes: the client
\* disconnected or left a request unanswered, a tracker call failed, or
\* the video could not be fetched
Excused ==
    \/ pc = "disconnected"
    \/ pc = "failed" /\ raised \in {"tracker", "download", "disconnect"}
    \/ pc = "failed" /\ raised = "human_input" /\ last_response.kind = "timeout"

\* the completed message is sent once, with the summary, by the step that
\* finds the video exhausted, as the last message, and no step follows it
CompletedOnce ==
    [][/\ "completed" \in SentTypes =>
              /\ pc = "read" /\ pc' = "completed"
              /\ sent'[Len(sent')] = Completion(frame_num)
              /\ \A i \in 1 .. Len(sent') - 1 : sent'[i].type # "completed"
              /\ summary' # NoSummary
       /\ pc # "completed"]_vars

\* C23  Session completion: when the video has finitely many frames, no
\* tracker call fails and the client stays connected and answers every
\* human-input request, the session eventually sends exactly one completed
\* message carrying the summary, only after the last frame, and sends no
\* frame-processing message after it.
SessionCompletion ==
    /\ CompletedOnce
    /\ <>(pc = "completed" \/ Excused)

\* the same with every answer well-formed: the session ends completed
\* unless a request_user_input call raised
CompletionOnWellFormedAnswers ==
    /\ CompletedOnce
    /\ <>(pc = "completed" \/ Excused \/ (pc = "failed" /\ raised = "human_input"))

----------------------------------------------------------------------------
\* C31  original_id frame condition: update_tracking, confirm_reassignment,
\* deny_temporary_assignment and get_reassignment_suggestions change neither
\* original_id nor id_history; after initialize_tracking, original_id
\* changes only in a confirm_temporary_as_permanent call that returns True.
OriginalIdFrameCondition ==
    [][Initialized =>
          /\ op' \in {"update_tracking", "confirm_reassignment",
                      "deny_temporary_assignment",
                      "get_reassignment_suggestions"} =>
                 /\ tracking_state'.original_id = tracking_state.original_id
                 /\ tracking_state'.id_history = tracking_state.id_history
          /\ (/\ op' # "initialize_tracking"
              /\ tracking_state'.original_id # tracking_state.original_id) =>
                 /\ op' = "confirm_temporary_as_permanent"
                 /\ ret' = TRUE]_vars

\* the user has put the tracker on a player other than the original target
\* and original_id is still the player picked at initialize_tracking
OriginalKeptOnReassignment ==
    /\ op = "confirm_reassignment"
    /\ Initialized
    /\ tracking_state.current_id = arg_id
    /\ tracking_state.original_id # arg_id
    /\ tracking_state.id_history = {tracking_state.original_id}

----------------------------------------------------------------------------
\* C33  Returned id is observed: whenever update_tracking returns a tracked
\* id that is not None, that id is a key of the observations handed to the
\* call and is current_id after the call; whenever it returns None on an
\* initialized tracker, current_id after the call is not a key of those
\* observations.
ReturnedIdObserved ==
    [][UpdateCall =>
          /\ ret'.tracked_id # None =>
                 /\ ObservedIn(ret'.tracked_id)
                 /\ ret'.tracked_id = tracking_state'.current_id
          /\ ret'.tracked_id = None =>
                 ~ObservedIn(tracking_state'.current_id)]_vars

\* update_tracking has returned None although players were observed, one of
\* them a candidate the call turned down
NoTargetAmongObserved ==
    /\ op = "update_tracking"
    /\ Initialized
    /\ ret.tracked_id = None
    /\ Len(arg_track) >= 2
    /\ ~InTrack(tracking_state.current_id, arg_track)

----------------------------------------------------------------------------
\* C34  Temporary flag invariant: in every state reached through
\* initialize_tracking, update_tracking, confirm_reassignment,
\* confirm_temporary_as_permanent and deny_temporary_assignment,
\* is_temporary_assignment is true exactly when current_id # original_id.
TemporaryFlagInvariant ==
    Initialized =>
        (tracking_state.is_temporary_assignment
            <=> tracking_state.current_id # tracking_state.original_id)

\* update_tracking has put the tracker on a substitute by itself: the flag
\* is set and current_id differs from original_id
SubstituteFlagged ==
    /\ op = "update_tracking"
    /\ Initialized
    /\ ret.status = "reassigned"
    /\ tracking_state.is_temporary_assignment
    /\ tracking_state.current_id # tracking_state.original_id

----------------------------------------------------------------------------
\* C39  No automatic reassignment without displacement history: with the
\* default confidence_threshold, an update_tracking call that finds the
\* target lost while position_history holds fewer than 2 positions scores
\* every observed candidate at 0.6 at most, leaves current_id as it was and
\* returns None as the tracked id.
NoReassignmentWithoutHistory ==
    [][(/\ UpdateCall
        /\ ~ObservedIn(tracking_state.current_id)
        /\ Len(tracking_state.position_history) < 2) =>
          /\ \A i \in 1 .. Len(arg_track') :
                 10 * Score(CountLostFrame(tracking_state), arg_track', i)
                     <= 6 * One
          /\ tracking_state'.current_id = tracking_state.current_id
          /\ ret'.tracked_id = None]_vars

\* the target was lost right after initialize_tracking, within the limit,
\* and a player standing where the target was last seen was not taken
NearCandidateNotTaken ==
    /\ op = "update_tracking"
    /\ Initialized
    /\ ret.status = "player_lost"
    /\ Len(tracking_state.position_history) = 1
    /\ tracking_state.lost_frames <= max_lost_frames
    /\ \E i \in 1 .. Len(arg_track) :
           /\ arg_track[i].id # 0
           /\ arg_track[i].data.bbox_center =
                  tracking_state.last_known_position

----------------------------------------------------------------------------
\* C35  Possession never reverts to none: the result of process_frame
\* differs from the result of the previous call only on a frame where the
\* ball is observed and the run of the best candidate has reached
\* min_frames frames; and once process_frame has returned a player id it
\* does not return -1 again.
PossessionNeverReverts ==
    [][FrameProcessed =>
          /\ det_ret' # PreviousResult =>
                 /\ ~BallMissing(det_ball_track')
                 /\ best_run'.len >= min_frames
          /\ PreviousResult # -1 => det_ret' # -1]_vars

\* the part of C35 the code keeps: the result changes only on a frame with
\* the ball observed and a best candidate, to that candidate, and a player
\* id is never followed by -1
ResultNeverBackToNone ==
    [][FrameProcessed =>
          /\ det_ret' # PreviousResult =>
                 /\ ~BallMissing(det_ball_track')
                 /\ det_best' = det_ret'
                 /\ det_ret' # -1
          /\ PreviousResult # -1 => det_ret' # -1]_vars

----------------------------------------------------------------------------
\* the frame read by the step is handed to update_tracking with the target
\* lost for more than max_lost_frames frames and neither current_id nor
\* original_id observed
LostPastLimitFrame ==
    /\ pc = "read"
    /\ tracking_initialized
    /\ "update_tracking" \in Range(calls')
    /\ tracking_state.lost_frames > max_lost_frames
    /\ tracking_state.current_id \notin Keys(cur_player_track')
    /\ tracking_state.original_id \notin Keys(cur_player_track')

\* C36  Re-prompt while lost: once lost_frames exceeds max_lost_frames,
\* every update_tracking call in which neither current_id nor original_id
\* is observed asks for user input and reassigns nothing; after the user
\* has answered a reassignment_selection request with 'continue without
\* tracking', the next such frame brings a new reassignment_selection
\* request.
RePromptWhileLost ==
    [][LostPastLimitFrame =>
          /\ pc' \in {"wait_confirm", "wait_reassign"}
          /\ tracking_state'.current_id = tracking_state.current_id
          /\ tracking_state'.lost_frames = tracking_state.lost_frames + 1
          /\ pc' = "wait_confirm" => tracking_state.is_temporary_assignment
          /\ last_response.kind = "choice_0" =>
                 /\ pc' = "wait_reassign"
                 /\ sent'[Len(sent')] =
                        UserInput("reassignment_selection", frame_num)]_vars

\* the user is asked again on the frame after a request that left the
\* tracker where it was
PromptedAgain ==
    /\ pc = "wait_reassign"
    /\ tracking_initialized
    /\ ~tracking_state.is_temporary_assignment
    /\ tracking_state.lost_frames = max_lost_frames + 2
    /\ sent # << >>
    /\ sent[Len(sent)] = UserInput("reassignment_selection", frame_num)

----------------------------------------------------------------------------
\* C32  One pipeline per session: whatever the order of the WebSocket
\* connections and HTTP calls, at most one call of process_video_session
\* is running for a session_id at any time.
OnePipelinePerSession ==
    \A session_id \in ApiSessions : pipelines[session_id].running <= 1

----------------------------------------------------------------------------
\* C37  Session status reflects outcome: the status of a session is
\* COMPLETED only if its pipeline has sent the completed message; after a
\* disconnect during processing or a failure the status is not COMPLETED.
StatusReflectsOutcome ==
    \A session_id \in DOMAIN active_sessions :
        active_sessions[session_id].status = COMPLETED =>
            pipelines[session_id].ended = "completed"

\* the part of C37 the code keeps: a pipeline that raised leaves the
\* session in status ERROR
FailureIsError ==
    [][\A session_id \in DOMAIN active_sessions :
          (/\ pipelines'[session_id].running < pipelines[session_id].running
           /\ pipelines'[session_id].ended = "failed") =>
              active_sessions'[session_id].status = ERROR]_vars

----------------------------------------------------------------------------
\* C38  Heartbeat task lifetime: the heartbeat task created by
\* request_user_input has ended when request_user_input returns or raises,
\* whatever ended the wait; a heartbeat is sent only while the request
\* waits, never after frame processing has resumed; and a failing heartbeat
\* send ends the task and leaves the pending request as it was.
HeartbeatTaskLifetime ==
    [][/\ (request'.pc \in {"returned", "raised"} /\ request'.pc # request.pc) =>
              heartbeat_task'.pc \in {"none", "done"}
       /\ request'.pc = "idle" => heartbeat_task'.pc \in {"none", "done"}
       /\ heartbeat_task'.sent = heartbeat_task.sent + 1 =>
              /\ request.pc \in {"waiting", "resuming"}
              /\ request' = request
       /\ (heartbeat_task'.failed /\ ~heartbeat_task.failed) =>
              /\ heartbeat_task'.pc = "done"
              /\ request' = request
              /\ request.pc \in {"waiting", "resuming"}]_vars

\* a heartbeat send failed during the wait and request_user_input has
\* returned the answer all the same
AnsweredAfterHeartbeatFailure ==
    /\ request.pc = "returned"
    /\ request.outcome = "response"
    /\ heartbeat_task.failed
    /\ heartbeat_task.pc = "done"
    /\ heartbeat_task.sent >= 1

====
